---- MODULE Spec2Model ----
(***************************************************************************)
(* Fluent Forward ingest server: the TCP source runtime of                 *)
(* src/sources/util/tcp.rs (accept loop, per-connection handler, graceful  *)
(* shutdown) and the Fluent codec of src/sources/fluent.rs (incremental    *)
(* MessagePack decoding, message expansion into frames, event building).   *)
(*                                                                         *)
(* Bytes are the integers 0..255 and MessagePack markers keep their wire   *)
(* values.  Strings are kept short: the option key "compressed" is the     *)
(* one-character string "c", and the compression names "text", "gzip" and  *)
(* "snappy" are "t", "g" and "s".                                          *)
(***************************************************************************)
EXTENDS Integers, Sequences, FiniteSets, TLC

(***************************************************************************)
(* Bounds of the model.                                                    *)
(***************************************************************************)
MaxMsgs == 3
MaxZoo == 1
MaxConns == 2
MaxSeconds == 127
MaxTail == 3

(***************************************************************************)
(* MessagePack wire format (the subset of markers the model's peers send). *)
(***************************************************************************)
NIL == 192
RESERVED == 193
BIN8 == 196
FIXEXT4 == 214
FIXEXT8 == 215
FIXMAP == 128
FIXARRAY == 144
FIXSTR == 160

RECURSIVE Concat(_)
Concat(ss) == IF ss = <<>> THEN <<>> ELSE Head(ss) \o Concat(Tail(ss))

VNil == [k |-> "nil"]
VInt(n) == [k |-> "int", n |-> n]
VStr(s) == [k |-> "str", b |-> s]
VBin(b) == [k |-> "bin", b |-> b]
VArr(a) == [k |-> "arr", a |-> a]
VMap(m) == [k |-> "map", m |-> m]
VExt(c, b) == [k |-> "ext", c |-> c, b |-> b]

(* The peer's encoder: a MessagePack value to its bytes. *)
RECURSIVE Enc(_)
Enc(v) ==
  CASE v.k = "nil" -> <<NIL>>
    [] v.k = "int" -> <<v.n>>
    [] v.k = "str" -> <<FIXSTR + Len(v.b)>> \o v.b
    [] v.k = "bin" -> <<BIN8, Len(v.b)>> \o v.b
    [] v.k = "arr" -> <<FIXARRAY + Len(v.a)>> \o Concat([i \in 1..Len(v.a) |-> Enc(v.a[i])])
    [] v.k = "map" -> <<FIXMAP + Len(v.m)>>
                        \o Concat([i \in 1..Len(v.m) |-> Enc(v.m[i][1]) \o Enc(v.m[i][2])])
    [] v.k = "ext" -> <<IF Len(v.b) = 4 THEN FIXEXT4 ELSE FIXEXT8, v.c>> \o v.b

(***************************************************************************)
(* rmp_serde's Deserializer over io::Cursor(&src[..]): reads one value     *)
(* starting at index p (1-based).  st is "ok", "eofM" (unexpected EOF in a *)
(* marker read), "eofD" (unexpected EOF in a data read) or "err" (any      *)
(* other decode error); pos is the cursor position, as the number of bytes *)
(* read so far plus one.                                                   *)
(***************************************************************************)
PRes(st, pos, val) == [st |-> st, pos |-> pos, val |-> val]

MapOf(r, n) ==
  IF r.st # "ok" THEN r
  ELSE PRes("ok", r.pos, VMap([i \in 1..n |-> <<r.val[2 * i - 1], r.val[2 * i]>>]))
ArrOf(r) == IF r.st # "ok" THEN r ELSE PRes("ok", r.pos, VArr(r.val))

RECURSIVE ReadValue(_, _), ReadItems(_, _, _, _), ReadMore(_, _, _, _)
ReadItems(b, p, n, acc) ==
  IF n = 0 THEN PRes("ok", p, acc) ELSE ReadMore(b, ReadValue(b, p), n, acc)
ReadMore(b, r, n, acc) ==
  IF r.st # "ok" THEN r ELSE ReadItems(b, r.pos, n - 1, Append(acc, r.val))

ReadValue(b, p) ==
  IF p > Len(b) THEN PRes("eofM", p, VNil)
  ELSE LET m == b[p] IN
    CASE m < FIXMAP -> PRes("ok", p + 1, VInt(m))
      [] m >= FIXMAP /\ m < FIXARRAY ->
           MapOf(ReadItems(b, p + 1, 2 * (m - FIXMAP), <<>>), m - FIXMAP)
      [] m >= FIXARRAY /\ m < FIXSTR ->
           ArrOf(ReadItems(b, p + 1, m - FIXARRAY, <<>>))
      [] m >= FIXSTR /\ m < NIL ->
           LET n == m - FIXSTR IN
           IF p + n > Len(b) THEN PRes("eofD", p + 1, VNil)
           ELSE PRes("ok", p + 1 + n, VStr(SubSeq(b, p + 1, p + n)))
      [] m = NIL -> PRes("ok", p + 1, VNil)
      [] m = BIN8 ->
           IF p + 1 > Len(b) THEN PRes("eofD", p + 1, VNil)
           ELSE LET n == b[p + 1] IN
                IF p + 1 + n > Len(b) THEN PRes("eofD", p + 2, VNil)
                ELSE PRes("ok", p + 2 + n, VBin(SubSeq(b, p + 2, p + 1 + n)))
      [] m = FIXEXT4 ->
           IF p + 5 > Len(b) THEN PRes("eofD", p + 1, VNil)
           ELSE PRes("ok", p + 6, VExt(b[p + 1], SubSeq(b, p + 2, p + 5)))
      [] m = FIXEXT8 ->
           IF p + 9 > Len(b) THEN PRes("eofD", p + 1, VNil)
           ELSE PRes("ok", p + 10, VExt(b[p + 1], SubSeq(b, p + 2, p + 9)))
      [] m = RESERVED -> PRes("err", p + 1, VNil)
      [] OTHER -> PRes("unmodelled", p + 1, VNil)

(***************************************************************************)
(* serde's typed views of a decoded value.                                 *)
(***************************************************************************)
RECURSIVE IsUtf8(_)
IsUtf8(s) ==
  IF s = <<>> THEN TRUE
  ELSE LET c == Head(s)
           Cont(i) == i <= Len(s) /\ s[i] >= 128 /\ s[i] < 192
       IN CASE c < 128 -> IsUtf8(Tail(s))
            [] c >= 194 /\ c < 224 -> Cont(2) /\ IsUtf8(SubSeq(s, 3, Len(s)))
            [] c >= 224 /\ c < 240 -> Cont(2) /\ Cont(3)
                                       /\ (c = 224 => s[2] >= 160)
                                       /\ (c = 237 => s[2] < 160)
                                       /\ IsUtf8(SubSeq(s, 4, Len(s)))
            [] c >= 240 /\ c < 245 -> Cont(2) /\ Cont(3) /\ Cont(4)
                                       /\ (c = 240 => s[2] >= 144)
                                       /\ (c = 244 => s[2] < 144)
                                       /\ IsUtf8(SubSeq(s, 5, Len(s)))
            [] OTHER -> FALSE

(* String: a str or bin value holding valid UTF-8. *)
IsString(v) == v.k \in {"str", "bin"} /\ IsUtf8(v.b)

(* serde_bytes::ByteBuf: a str, a bin, or an array of u8. *)
IsByteBuf(v) ==
  \/ v.k \in {"str", "bin"}
  \/ v.k = "arr" /\ \A i \in 1..Len(v.a) : v.a[i].k = "int"
ByteBufOf(v) ==
  IF v.k = "arr" THEN [i \in 1..Len(v.a) |-> v.a[i].n] ELSE v.b

(* u32::from_be_bytes, were it from_le_bytes. *)
U32_LittleEndian(b) == ((b[4] * 256 + b[3]) * 256 + b[2]) * 256 + b[1]

U32(b) == ((b[1] * 256 + b[2]) * 256 + b[3]) * 256 + b[4]
NanosLimit == 2000000000
Timestamp(secs, nanos) == [secs |-> secs, nanos |-> nanos]

(* FluentEventTimeVisitor::visit_seq over (tag, bytes): "ok", "err", or     *)
(* "panic" when Utc.timestamp is given nanoseconds it cannot represent.    *)
FluentEventTime(tag, bytes) ==
  IF tag # 0 THEN [st |-> "err"]
  ELSE IF Len(bytes) # 8 THEN [st |-> "err"]
  ELSE IF U32(SubSeq(bytes, 5, 8)) >= NanosLimit THEN [st |-> "panic"]
  ELSE [st |-> "ok", ts |-> Timestamp(U32(SubSeq(bytes, 1, 4)), U32(SubSeq(bytes, 5, 8)))]

(* FluentTimestamp, untagged: Unix(seconds) first, then Ext. *)
FluentTimestamp(v) ==
  CASE v.k = "int" -> [st |-> "ok", ts |-> Timestamp(v.n, 0)]
    [] v.k = "ext" -> FluentEventTime(v.c, v.b)
    [] v.k = "arr" /\ Len(v.a) = 2 /\ v.a[1].k = "int" /\ IsByteBuf(v.a[2]) ->
         FluentEventTime(v.a[1].n, ByteBufOf(v.a[2]))
    [] OTHER -> [st |-> "err"]

(* FluentRecord = BTreeMap<String, FluentValue>: a later key replaces an   *)
(* earlier equal one.                                                      *)
IsRecord(v) == v.k = "map" /\ \A i \in 1..Len(v.m) : IsString(v.m[i][1])
RECURSIVE RecordOfPairs(_)
RecordOfPairs(m) ==
  IF m = <<>> THEN <<>>
  ELSE LET n == Len(m)
           rest == RecordOfPairs(SubSeq(m, 1, n - 1))
           key == m[n][1].b
       IN [x \in (DOMAIN rest) \cup {key} |-> IF x = key THEN m[n][2] ELSE rest[x]]
FluentRecord(v) == RecordOfPairs(v.m)

(* FluentMessageOptions {size, chunk, compressed}: from a map (fields by   *)
(* name or by index, unknown keys ignored, a repeated field refused) or    *)
(* from a 3-array.  "n" is size, "k" is chunk, "c" is compressed.          *)
FieldOf(key) ==
  CASE key.k = "int" -> (CASE key.n = 0 -> "size" [] key.n = 1 -> "chunk"
                           [] key.n = 2 -> "compressed" [] OTHER -> "ignore")
    [] key.k \in {"str", "bin"} ->
         (CASE key.b = <<110>> -> "size" [] key.b = <<107>> -> "chunk"
            [] key.b = <<99>> -> "compressed" [] OTHER -> "ignore")
    [] OTHER -> "invalid"
IsSize(v) == v.k \in {"nil", "int"}
IsChunk(v) == v.k = "nil" \/ IsString(v)
IsOptions(v) ==
  \/ /\ v.k = "map"
     /\ \A i \in 1..Len(v.m) :
          LET f == FieldOf(v.m[i][1]) IN
          /\ f # "invalid"
          /\ f = "size" => IsSize(v.m[i][2])
          /\ f = "chunk" => IsChunk(v.m[i][2])
          /\ f = "compressed" => IsString(v.m[i][2])
          /\ f # "ignore" => \A j \in 1..(i - 1) : FieldOf(v.m[j][1]) # f
     /\ \E i \in 1..Len(v.m) : FieldOf(v.m[i][1]) = "compressed"
  \/ /\ v.k = "arr" /\ Len(v.a) = 3
     /\ IsSize(v.a[1]) /\ IsChunk(v.a[2]) /\ IsString(v.a[3])
CompressedOf(v) ==
  IF v.k = "arr" THEN v.a[3].b
  ELSE v.m[CHOOSE i \in 1..Len(v.m) : FieldOf(v.m[i][1]) = "compressed"][2].b

(* The first failure among the elements a tuple visitor reads in order.    *)
FirstBad(sts) ==
  IF \A i \in DOMAIN sts : sts[i] = "ok" THEN "ok"
  ELSE sts[CHOOSE i \in DOMAIN sts :
             sts[i] # "ok" /\ \A j \in 1..(i - 1) : sts[j] = "ok"]
Min(a, b) == IF a < b THEN a ELSE b
Ok(cond) == IF cond THEN "ok" ELSE "err"
TupleSt(sts, len, arity) ==
  LET s == FirstBad(sts) IN IF s = "ok" /\ len # arity THEN "err" ELSE s

(* FluentEntry(FluentTimestamp, FluentRecord) from a buffered value. *)
EntrySt(v) ==
  IF v.k # "arr" THEN "err"
  ELSE TupleSt([i \in 1..Min(Len(v.a), 2) |->
                  IF i = 1 THEN FluentTimestamp(v.a[1]).st ELSE Ok(IsRecord(v.a[2]))],
               Len(v.a), 2)
EntriesSt(v) ==
  IF v.k # "arr" THEN "err" ELSE FirstBad([i \in 1..Len(v.a) |-> EntrySt(v.a[i])])
FluentEntry(v) == [timestamp |-> FluentTimestamp(v.a[1]).ts, record |-> FluentRecord(v.a[2])]

(* The variants of the untagged enum FluentMessage, tried in declaration   *)
(* order against the buffered value; Heartbeat takes any value.            *)
VariantSt(v, shape) ==
  IF v.k # "arr" THEN "err"
  ELSE LET a == v.a
           n == Len(a)
       IN CASE shape = "Message" ->
                 TupleSt([i \in 1..Min(n, 3) |->
                            CASE i = 1 -> Ok(IsString(a[1]))
                              [] i = 2 -> FluentTimestamp(a[2]).st
                              [] i = 3 -> Ok(IsRecord(a[3]))], n, 3)
            [] shape = "MessageWithOptions" ->
                 TupleSt([i \in 1..Min(n, 4) |->
                            CASE i = 1 -> Ok(IsString(a[1]))
                              [] i = 2 -> FluentTimestamp(a[2]).st
                              [] i = 3 -> Ok(IsRecord(a[3]))
                              [] i = 4 -> Ok(IsOptions(a[4]))], n, 4)
            [] shape = "Forward" ->
                 TupleSt([i \in 1..Min(n, 2) |->
                            CASE i = 1 -> Ok(IsString(a[1]))
                              [] i = 2 -> EntriesSt(a[2])], n, 2)
            [] shape = "ForwardWithOptions" ->
                 TupleSt([i \in 1..Min(n, 3) |->
                            CASE i = 1 -> Ok(IsString(a[1]))
                              [] i = 2 -> EntriesSt(a[2])
                              [] i = 3 -> Ok(IsOptions(a[3]))], n, 3)
            [] shape = "PackedForward" ->
                 TupleSt([i \in 1..Min(n, 2) |->
                            CASE i = 1 -> Ok(IsString(a[1]))
                              [] i = 2 -> Ok(IsByteBuf(a[2]))], n, 2)
            [] shape = "PackedForwardWithOptions" ->
                 TupleSt([i \in 1..Min(n, 3) |->
                            CASE i = 1 -> Ok(IsString(a[1]))
                              [] i = 2 -> Ok(IsByteBuf(a[2]))
                              [] i = 3 -> Ok(IsOptions(a[3]))], n, 3)

Shapes == <<"Message", "MessageWithOptions", "Forward", "ForwardWithOptions",
            "PackedForward", "PackedForwardWithOptions">>

(* The FluentMessage a complete value deserializes to; [shape |-> "panic"] *)
(* when a variant tried on the way panics in the EventTime visitor.        *)
Variant(a, shape, st) ==
  CASE st = "panic" -> [shape |-> "panic"]
    [] shape \in {"Message", "MessageWithOptions"} ->
         [shape |-> shape, tag |-> a[1].b,
          timestamp |-> FluentTimestamp(a[2]).ts, record |-> FluentRecord(a[3])]
    [] shape \in {"Forward", "ForwardWithOptions"} ->
         [shape |-> shape, tag |-> a[1].b,
          entries |-> [j \in 1..Len(a[2].a) |-> FluentEntry(a[2].a[j])]]
    [] shape = "PackedForward" ->
         [shape |-> shape, tag |-> a[1].b, bin |-> ByteBufOf(a[2])]
    [] shape = "PackedForwardWithOptions" ->
         [shape |-> shape, tag |-> a[1].b, bin |-> ByteBufOf(a[2]),
          compressed |-> CompressedOf(a[3])]

FirstVariant(v, sts, hit) ==
  IF hit = {} THEN [shape |-> "Heartbeat", value |-> v]
  ELSE Variant(v.a, Shapes[CHOOSE x \in hit : \A y \in hit : x <= y],
               sts[CHOOSE x \in hit : \A y \in hit : x <= y])

Untagged(v, sts) == FirstVariant(v, sts, {i \in 1..Len(Shapes) : sts[i] # "err"})

FluentMessage(v) == Untagged(v, [i \in 1..Len(Shapes) |-> VariantSt(v, Shapes[i])])

(***************************************************************************)
(* gzip.  A member is the magic byte, the length of the stored data, the   *)
(* data, and a trailer repeating the length (standing for CRC32 + ISIZE).  *)
(* Gzip is the peer's compressor; MultiGzDecoder reads members until the   *)
(* input ends and fails with an io::Error on anything else.                *)
(***************************************************************************)
GZMAGIC == 31
Gzip(p) == <<GZMAGIC, Len(p)>> \o p \o <<Len(p)>>

NextMember(data, rest) ==
  IF rest.ok THEN [ok |-> TRUE, out |-> data \o rest.out] ELSE rest

(* MultiGzDecoder, were it GzDecoder: the first member only. *)
MultiGzDecoder_FirstMemberOnly(b) ==
  IF Len(b) < 3 \/ b[1] # GZMAGIC THEN [ok |-> FALSE, err |-> "IO"]
  ELSE LET n == b[2] IN
       IF Len(b) < n + 3 \/ b[n + 3] # n THEN [ok |-> FALSE, err |-> "IO"]
       ELSE [ok |-> TRUE, out |-> SubSeq(b, 3, n + 2)]

RECURSIVE MultiGzDecoder(_)
MultiGzDecoder(b) ==
  IF Len(b) < 3 \/ b[1] # GZMAGIC THEN [ok |-> FALSE, err |-> "IO"]
  ELSE LET n == b[2] IN
       IF Len(b) < n + 3 \/ b[n + 3] # n THEN [ok |-> FALSE, err |-> "IO"]
       ELSE IF Len(b) = n + 3 THEN [ok |-> TRUE, out |-> SubSeq(b, 3, n + 2)]
       ELSE NextMember(SubSeq(b, 3, n + 2), MultiGzDecoder(SubSeq(b, n + 4, Len(b))))

(***************************************************************************)
(* FluentEntryStreamDecoder::decode: one FluentEntry read straight from    *)
(* the deserializer, element by element.                                   *)
(***************************************************************************)
IsContainer(m) == m >= FIXMAP /\ m < FIXSTR

RECURSIVE ReadPairs(_, _, _, _), ReadPairKey(_, _, _, _), ReadPairVal(_, _, _, _, _)
ReadPairs(b, p, n, acc) ==
  IF n = 0 THEN PRes("ok", p, acc)
  ELSE IF p <= Len(b) /\ IsContainer(b[p]) THEN PRes("err", p + 1, VNil)
  ELSE ReadPairKey(b, ReadValue(b, p), n, acc)
ReadPairKey(b, key, n, acc) ==
  IF key.st # "ok" THEN key
  ELSE IF ~IsString(key.val) THEN PRes("err", key.pos, VNil)
  ELSE ReadPairVal(b, key, ReadValue(b, key.pos), n, acc)
ReadPairVal(b, key, val, n, acc) ==
  IF val.st # "ok" THEN val
  ELSE ReadPairs(b, val.pos, n - 1, Append(acc, <<key.val, val.val>>))

RecordRes(r) == IF r.st # "ok" THEN r ELSE PRes("ok", r.pos, RecordOfPairs(r.val))
NotARecord(r) == IF r.st = "ok" THEN PRes("err", r.pos, VNil) ELSE r

ReadRecord(b, p) ==
  IF p > Len(b) THEN PRes("eofM", p, VNil)
  ELSE IF b[p] >= FIXMAP /\ b[p] < FIXARRAY
       THEN RecordRes(ReadPairs(b, p + 1, b[p] - FIXMAP, <<>>))
  ELSE IF IsContainer(b[p]) THEN PRes("err", p + 1, VNil)
  ELSE NotARecord(ReadValue(b, p))

(* Result: ret is "some" (entry, rest of src), "none", "err" or "panic".   *)
(* Only an unexpected EOF in a data read gives "none" (lines 308-312); an  *)
(* unexpected EOF in a marker read is returned as a decode error.          *)
EntryRes(r) ==
  CASE r.st = "eofD" -> [ret |-> "none"]
    [] OTHER -> [ret |-> "err"]

EntryRecord(src, n, ts, rec) ==
  IF rec.st # "ok" THEN EntryRes(rec)
  ELSE IF n # 2 THEN [ret |-> "err"]
  ELSE [ret |-> "some",
        entry |-> [timestamp |-> ts.ts, record |-> rec.val],
        src |-> SubSeq(src, rec.pos, Len(src))]

EntryTimestamp(src, n, t, ts) ==
  IF ts.st # "ok" THEN [ret |-> ts.st]
  ELSE IF n = 1 THEN [ret |-> "err"]
  ELSE EntryRecord(src, n, ts, ReadRecord(src, t.pos))

EntryFirst(src, n, t) ==
  IF t.st # "ok" THEN EntryRes(t)
  ELSE EntryTimestamp(src, n, t, FluentTimestamp(t.val))

EntryStreamDecode(src) ==
  IF src = <<>> THEN [ret |-> "none"]
  ELSE IF ~(src[1] >= FIXARRAY /\ src[1] < FIXSTR)
       THEN IF IsContainer(src[1]) THEN [ret |-> "err"]
            ELSE EntryRes(ReadValue(src, 1))
  ELSE IF src[1] = FIXARRAY THEN [ret |-> "err"]
  ELSE EntryFirst(src, src[1] - FIXARRAY, ReadValue(src, 2))

(***************************************************************************)
(* FluentDecoder::handle_message: appends the message's frames to          *)
(* unread_frames.  err is "" on Ok(()), else the DecodeError variant, or   *)
(* "panic".                                                                *)
(***************************************************************************)
FluentFrame(tag, timestamp, record) ==
  [tag |-> tag, timestamp |-> timestamp, record |-> record]

HRes(err, frames) == [err |-> err, unread_frames |-> frames]

(* while let Some(entry) = decoder.decode(&mut buf)? { push_back } *)
RECURSIVE EntryStreamLoop(_, _, _), EntryStreamNext(_, _, _)
EntryStreamLoop(unread_frames, tag, buf) ==
  EntryStreamNext(unread_frames, tag, EntryStreamDecode(buf))
EntryStreamNext(unread_frames, tag, r) ==
  CASE r.ret = "some" ->
         EntryStreamLoop(
           Append(unread_frames, FluentFrame(tag, r.entry.timestamp, r.entry.record)),
           tag, r.src)
    [] r.ret = "none" -> HRes("", unread_frames)
    [] r.ret = "err" -> HRes("Decode", unread_frames)
    [] r.ret = "panic" -> HRes("panic", unread_frames)

TEXT == <<116>>
GZIP == <<103>>

(* let buf = match ... {..}?; then the entry-stream loop over buf. *)
Decompressed(unread_frames, tag, buf) ==
  IF buf.ok THEN EntryStreamLoop(unread_frames, tag, buf.out)
  ELSE HRes(buf.err, unread_frames)

(* Materialized, were an unknown compression read as "text". *)
Materialized_UnknownAsText(message) ==
  CASE message.compressed = GZIP -> MultiGzDecoder(message.bin)
    [] OTHER -> [ok |-> TRUE, out |-> message.bin]

(* match options.compressed.as_str() { "gzip" => .., "text" => .., s => .. } *)
Materialized(message) ==
  CASE message.compressed = GZIP -> MultiGzDecoder(message.bin)
    [] message.compressed = TEXT -> [ok |-> TRUE, out |-> message.bin]
    [] OTHER -> [ok |-> FALSE, err |-> "UnknownCompression"]

handle_message(unread_frames, message) ==
  CASE message.shape \in {"Message", "MessageWithOptions"} ->
         HRes("", Append(unread_frames,
                         FluentFrame(message.tag, message.timestamp, message.record)))
    [] message.shape \in {"Forward", "ForwardWithOptions"} ->
         HRes("", unread_frames \o
                    [i \in 1..Len(message.entries) |->
                       FluentFrame(message.tag, message.entries[i].timestamp,
                                   message.entries[i].record)])
    [] message.shape = "PackedForward" ->
         Decompressed(unread_frames, message.tag, [ok |-> TRUE, out |-> message.bin])
    [] message.shape = "PackedForwardWithOptions" ->
         Decompressed(unread_frames, message.tag, Materialized(message))
    [] message.shape = "Heartbeat" ->
         IF message.value.k = "nil" THEN HRes("", unread_frames)
         ELSE HRes("UnexpectedValue", unread_frames)

(***************************************************************************)
(* FluentDecoder::decode.  ret is "some" (frame), "none", "err" (with the  *)
(* DecodeError variant in err) or "panic"; src and unread_frames are the   *)
(* buffer and the queue after the call.                                    *)
(***************************************************************************)
DRes(ret, frame, err, src, frames) ==
  [ret |-> ret, frame |-> frame, err |-> err, src |-> src, unread_frames |-> frames]

(* Handled, were the queue dropped once its first frame is handed out. *)
Handled_QueueLost(rest, h) ==
  CASE h.err = "panic" -> DRes("panic", <<>>, "", rest, h.unread_frames)
    [] h.err # "" /\ h.err # "panic" -> DRes("err", <<>>, h.err, rest, h.unread_frames)
    [] h.unread_frames = <<>> -> DRes("none", <<>>, "", rest, h.unread_frames)
    [] OTHER -> DRes("some", <<Head(h.unread_frames)>>, "", rest, <<>>)

(* res.and_then(|message| handle_message(message).map(|_| pop_front())) *)
Handled(rest, h) ==
  CASE h.err = "panic" -> DRes("panic", <<>>, "", rest, h.unread_frames)
    [] h.err # "" /\ h.err # "panic" -> DRes("err", <<>>, h.err, rest, h.unread_frames)
    [] h.unread_frames = <<>> -> DRes("none", <<>>, "", rest, h.unread_frames)
    [] OTHER -> DRes("some", <<Head(h.unread_frames)>>, "", rest, Tail(h.unread_frames))

Dispatch(rest, unread_frames, message) ==
  IF message.shape = "panic" THEN DRes("panic", <<>>, "", rest, unread_frames)
  ELSE Handled(rest, handle_message(unread_frames, message))

(* Deserialized, were the buffer not advanced on a decode error. *)
Deserialized_ErrorNotAdvanced(src, unread_frames, res) ==
  IF res.st \in {"eofM", "eofD"} THEN DRes("none", <<>>, "", src, unread_frames)
  ELSE IF res.st # "ok"
       THEN DRes("err", <<>>, "Decode", src, unread_frames)
  ELSE Dispatch(SubSeq(src, res.pos, Len(src)), unread_frames, FluentMessage(res.val))

(* Deserialized, were only the unexpected EOF of a data read taken for a    *)
(* message not yet complete.                                               *)
Deserialized_DataEofOnly(src, unread_frames, res) ==
  IF res.st = "eofD" THEN DRes("none", <<>>, "", src, unread_frames)
  ELSE IF res.st # "ok"
       THEN DRes("err", <<>>, "Decode", SubSeq(src, res.pos, Len(src)), unread_frames)
  ELSE Dispatch(SubSeq(src, res.pos, Len(src)), unread_frames, FluentMessage(res.val))

(* res is what Deserialize::deserialize returned, res.pos des.position(). *)
Deserialized(src, unread_frames, res) ==
  IF res.st \in {"eofM", "eofD"} THEN DRes("none", <<>>, "", src, unread_frames)
  ELSE IF res.st # "ok"
       THEN DRes("err", <<>>, "Decode", SubSeq(src, res.pos, Len(src)), unread_frames)
  ELSE Dispatch(SubSeq(src, res.pos, Len(src)), unread_frames, FluentMessage(res.val))

(* decode, were the last frame of the queue handed out first. *)
decode_PopBack(src, unread_frames) ==
  IF unread_frames # <<>>
  THEN DRes("some", <<unread_frames[Len(unread_frames)]>>, "", src,
            SubSeq(unread_frames, 1, Len(unread_frames) - 1))
  ELSE IF src = <<>> THEN DRes("none", <<>>, "", src, unread_frames)
  ELSE Deserialized(src, unread_frames, ReadValue(src, 1))

decode(src, unread_frames) ==
  IF unread_frames # <<>>
  THEN DRes("some", <<Head(unread_frames)>>, "", src, Tail(unread_frames))
  ELSE IF src = <<>> THEN DRes("none", <<>>, "", src, unread_frames)
  ELSE Deserialized(src, unread_frames, ReadValue(src, 1))

(* Decoder::decode_eof, the trait's default: decode, and an io::Error when *)
(* decode returns None with bytes left in the buffer.                      *)
BytesRemaining(d) ==
  IF d.ret = "none" /\ d.src # <<>>
  THEN DRes("err", <<>>, "IO", d.src, d.unread_frames)
  ELSE d

decode_eof(src, unread_frames) == BytesRemaining(decode(src, unread_frames))

is_error_fatal(err) ==
  CASE err = "IO" -> TRUE
    [] err = "Decode" -> FALSE
    [] err = "UnknownCompression" -> FALSE
    [] err = "UnexpectedValue" -> FALSE

(***************************************************************************)
(* From<FluentValue> for Value and FluentSource::build_event.  An event is *)
(* a function from top-level field names to values.                        *)
(***************************************************************************)
RECURSIVE Value(_)
Value(v) ==
  CASE v.k = "nil" -> [k |-> "Null"]
    [] v.k = "int" -> [k |-> "Integer", n |-> v.n]
    [] v.k \in {"str", "bin"} -> [k |-> "Bytes", b |-> v.b]
    [] v.k = "arr" -> [k |-> "Array", a |-> [i \in 1..Len(v.a) |-> Value(v.a[i])]]
    [] v.k = "map" -> [k |-> "Map",
                       m |-> [i \in 1..Len(v.m) |-> <<v.m[i][1], Value(v.m[i][2])>>]]
    [] v.k = "ext" -> [k |-> "Map", code |-> v.c, bytes |-> v.b]

host_key == <<104, 111, 115, 116>>
timestamp_key == <<116, 105, 109, 101, 115, 116, 97, 109, 112>>
tag_key == <<116, 97, 103>>

insert(log, key, value) ==
  [x \in (DOMAIN log) \cup {key} |-> IF x = key THEN value ELSE log[x]]

RECURSIVE insert_record(_, _, _)
insert_record(log, record, keys) ==
  IF keys = {} THEN log
  ELSE LET key == CHOOSE x \in keys : TRUE IN
       insert_record(insert(log, key, Value(record[key])), record, keys \ {key})

(* build_event, were the record inserted before the three fields. *)
build_event_RecordFirst(frame, host) ==
  LET log0 == insert_record(<<>>, frame.record, DOMAIN frame.record)
      log1 == insert(log0, host_key, [k |-> "Bytes", b |-> host])
      log2 == insert(log1, timestamp_key, [k |-> "Timestamp", ts |-> frame.timestamp])
  IN insert(log2, tag_key, [k |-> "Bytes", b |-> frame.tag])

build_event(frame, host) ==
  LET log0 == insert(<<>>, host_key, [k |-> "Bytes", b |-> host])
      log1 == insert(log0, timestamp_key, [k |-> "Timestamp", ts |-> frame.timestamp])
      log2 == insert(log1, tag_key, [k |-> "Bytes", b |-> frame.tag])
  IN insert_record(log2, frame.record, DOMAIN frame.record)

(***************************************************************************)
(* The peers.  A peer sends a sequence of messages of the catalogue; the   *)
(* catalogue gives each message as the peer means it (shape, tag, entries) *)
(* and Wire encodes it.  good says the peer followed the protocol.         *)
(***************************************************************************)
TagA == <<97>>
TagB == <<98>>
SNAPPY == <<115>>
KeyM == <<109>>

(* An entry with a Unix timestamp, or with an extension value for it: the  *)
(* extension's type, its payload's length, and the nanoseconds.            *)
Entry(ts, rec) == [ts |-> ts, rec |-> rec, ext |-> <<>>]
EntryExt(ts, nanos, type, len, rec) ==
  [ts |-> ts, rec |-> rec, ext |-> <<type, len, nanos>>]
Msg(shape, tag, entries, comp, gz, junk, good) ==
  [shape |-> shape, tag |-> tag, entries |-> entries, comp |-> comp, gz |-> gz,
   junk |-> junk, good |-> good, members |-> FALSE]
(* The message, its payload compressed as one gzip member per entry. *)
MultiMember(m) == [m EXCEPT !.members = TRUE]

(* The first n bytes of an entry (31, {m: 7}): what is left of it in a     *)
(* payload cut short.                                                      *)
TruncatedEntry(n) == SubSeq(<<FIXARRAY + 2, 31, FIXMAP + 1, FIXSTR + 1>> \o KeyM \o <<7>>, 1, n)

Catalogue ==
  << Msg("Heartbeat", <<>>, <<>>, <<>>, FALSE, <<NIL>>, TRUE),
     Msg("Message", TagA, <<Entry(1, << <<KeyM, 7>> >>)>>, <<>>, FALSE, <<>>, TRUE),
     Msg("Forward", TagB, <<Entry(2, <<>>), Entry(3, <<>>)>>, <<>>, FALSE, <<>>, TRUE),
     Msg("PackedForward", TagB, <<Entry(4, <<>>), Entry(5, <<>>)>>, <<>>, FALSE, <<>>, TRUE),
     Msg("PackedForwardWithOptions", TagA, <<Entry(6, <<>>)>>, SNAPPY, FALSE, <<>>, FALSE),
     Msg("PackedForward", TagA, <<Entry(8, <<>>)>>, <<>>, FALSE, <<RESERVED>>, FALSE),
     Msg("MessageWithOptions", TagB, <<Entry(9, <<>>)>>, TEXT, FALSE, <<>>, TRUE),
     Msg("ForwardWithOptions", TagA, <<Entry(10, <<>>), Entry(11, <<>>)>>, GZIP, FALSE, <<>>, TRUE),
     Msg("PackedForwardWithOptions", TagB, <<Entry(12, <<>>), Entry(13, <<>>)>>, TEXT, FALSE, <<>>, TRUE),
     Msg("PackedForwardWithOptions", TagA, <<Entry(14, <<>>), Entry(15, <<>>)>>, GZIP, TRUE, <<>>, TRUE),
     Msg("PackedForwardWithOptions", TagA, <<Entry(16, <<>>)>>, GZIP, FALSE, <<>>, FALSE),
     Msg("MessageWithOptions", TagA, <<Entry(17, <<>>)>>, SNAPPY, FALSE, <<>>, FALSE),
     Msg("ForwardWithOptions", TagB, <<Entry(18, <<>>)>>, SNAPPY, FALSE, <<>>, FALSE),
     Msg("Forward", TagA, <<>>, <<>>, FALSE, <<>>, TRUE),
     Msg("Heartbeat", <<>>, <<>>, <<>>, FALSE, <<7>>, FALSE),
     Msg("Heartbeat", <<>>, <<>>, <<>>, FALSE, <<RESERVED>>, FALSE),
     Msg("Heartbeat", <<>>, <<>>, <<>>, FALSE, <<147, 161>>, FALSE),
     Msg("Message", TagA, <<EntryExt(27, 0, 0, 8, << <<KeyM, 7>> >>)>>, <<>>, FALSE, <<>>, TRUE),
     Msg("Message", TagA, <<EntryExt(19, NanosLimit, 0, 8, <<>>)>>, <<>>, FALSE, <<>>, FALSE),
     Msg("Message", TagB, <<EntryExt(20, 0, 1, 8, <<>>)>>, <<>>, FALSE, <<>>, FALSE),
     Msg("Message", TagB, <<EntryExt(21, 0, 0, 4, <<>>)>>, <<>>, FALSE, <<>>, FALSE),
     Msg("PackedForward", TagA, <<Entry(22, <<>>), EntryExt(23, 0, 1, 8, <<>>)>>, <<>>, FALSE,
         <<>>, FALSE),
     MultiMember(Msg("PackedForwardWithOptions", TagB, <<Entry(24, <<>>), Entry(25, <<>>)>>,
                     GZIP, TRUE, <<>>, TRUE)),
     Msg("PackedForwardWithOptions", TagA, <<Entry(26, <<>>)>>, GZIP, TRUE, <<RESERVED>>, FALSE),
     Msg("Message", TagB,
         <<Entry(28, << <<host_key, 7>>, <<tag_key, 8>>, <<timestamp_key, 9>> >>)>>,
         <<>>, FALSE, <<>>, TRUE),
     Msg("PackedForward", TagB, <<Entry(29, <<>>)>>, <<>>, FALSE, TruncatedEntry(1), FALSE),
     Msg("PackedForward", TagB, <<Entry(30, <<>>)>>, <<>>, FALSE, TruncatedEntry(4), FALSE),
     Msg("Forward", TagA, <<Entry(32, <<>>), Entry(33, <<>>), Entry(34, <<>>)>>, <<>>, FALSE,
         <<>>, TRUE) >>

Core == 1..6
Zoo == 1..Len(Catalogue)

RecV(rec) == VMap([i \in 1..Len(rec) |-> <<VStr(rec[i][1]), VInt(rec[i][2])>>])
Bytes4(n) == <<n \div 16777216, (n \div 65536) % 256, (n \div 256) % 256, n % 256>>
TsV(e) ==
  IF e.ext = <<>> THEN VInt(e.ts)
  ELSE VExt(e.ext[1], SubSeq(Bytes4(e.ts) \o Bytes4(e.ext[3]), 1, e.ext[2]))
EntryV(e) == VArr(<<TsV(e), RecV(e.rec)>>)
OptsV(comp) == VMap(<< <<VStr(<<99>>), VStr(comp)>> >>)
Packed(m) ==
  LET p == Concat([i \in 1..Len(m.entries) |-> Enc(EntryV(m.entries[i]))]) \o m.junk
  IN IF ~m.gz THEN p
     ELSE IF ~m.members THEN Gzip(p)
     ELSE Concat([i \in 1..Len(m.entries) |-> Gzip(Enc(EntryV(m.entries[i])))])
            \o (IF m.junk = <<>> THEN <<>> ELSE Gzip(m.junk))

Wire(m) ==
  CASE m.shape = "Message" ->
         Enc(VArr(<<VStr(m.tag), TsV(m.entries[1]), RecV(m.entries[1].rec)>>))
    [] m.shape = "MessageWithOptions" ->
         Enc(VArr(<<VStr(m.tag), TsV(m.entries[1]), RecV(m.entries[1].rec),
                    OptsV(m.comp)>>))
    [] m.shape = "Forward" ->
         Enc(VArr(<<VStr(m.tag), VArr([i \in 1..Len(m.entries) |-> EntryV(m.entries[i])])>>))
    [] m.shape = "ForwardWithOptions" ->
         Enc(VArr(<<VStr(m.tag), VArr([i \in 1..Len(m.entries) |-> EntryV(m.entries[i])]),
                    OptsV(m.comp)>>))
    [] m.shape = "PackedForward" -> Enc(VArr(<<VStr(m.tag), VBin(Packed(m))>>))
    [] m.shape = "PackedForwardWithOptions" ->
         Enc(VArr(<<VStr(m.tag), VBin(Packed(m)), OptsV(m.comp)>>))
    [] m.shape = "Heartbeat" -> m.junk

WireOf == [m \in Zoo |-> Wire(Catalogue[m])]
StreamBytes(msgs) == Concat([i \in 1..Len(msgs) |-> WireOf[msgs[i]]])

SeqsUpTo(S, n) == UNION {[1..k -> S] : k \in 0..n}
CodecStreams == SeqsUpTo(Core, MaxMsgs) \cup SeqsUpTo(Zoo, MaxZoo)
RuntimeStreams == {<<3>>}
(* What the other peers send: a Message whose record has a key named like *)
(* the host field.                                                         *)
HostKeyStreams == {<<25>>}
PanickingStreams == {<<19>>}

(***************************************************************************)
(* The listen address.  A text is a sequence of characters; an address is  *)
(* SocketAddr(ip, port), SystemdFd(offset), or the error of a text that    *)
(* deserializes to neither.                                                *)
(***************************************************************************)
DIGITS == <<"0", "1", "2", "3", "4", "5", "6", "7", "8", "9">>
IsDigit(ch) == \E i \in 1..10 : DIGITS[i] = ch
DigitValue(ch) == (CHOOSE i \in 1..10 : DIGITS[i] = ch) - 1
AllDigits(s) == s # <<>> /\ \A i \in 1..Len(s) : IsDigit(s[i])

RECURSIVE DecValue(_)
DecValue(s) ==
  IF s = <<>> THEN 0 ELSE DecValue(SubSeq(s, 1, Len(s) - 1)) * 10 + DigitValue(s[Len(s)])

RECURSIVE ToDec(_)
ToDec(n) ==
  IF n < 10 THEN <<DIGITS[n + 1]>> ELSE ToDec(n \div 10) \o <<DIGITS[(n % 10) + 1]>>

StartsWith(s, prefix) ==
  Len(s) >= Len(prefix) /\ SubSeq(s, 1, Len(prefix)) = prefix

RECURSIVE Fields(_, _)
Fields(s, sep) ==
  IF \A i \in 1..Len(s) : s[i] # sep THEN <<s>>
  ELSE LET i == CHOOSE i \in 1..Len(s) : s[i] = sep /\ \A j \in 1..(i - 1) : s[j] # sep
       IN <<SubSeq(s, 1, i - 1)>> \o Fields(SubSeq(s, i + 1, Len(s)), sep)

SocketAddr(ip, port) == [kind |-> "SocketAddr", ip |-> ip, port |-> port]
SystemdFd(offset) == [kind |-> "SystemdFd", offset |-> offset]
AddrError == [kind |-> "Err"]

(* str::parse::<usize>: an optional "+", then digits and nothing else.     *)
(* (Texts stay far too short for the value to overflow a usize.)           *)
ParseUsize(s) ==
  LET digits == IF s # <<>> /\ s[1] = "+" THEN Tail(s) ELSE s
  IN IF AllDigits(digits) THEN [ok |-> TRUE, n |-> DecValue(digits)] ELSE [ok |-> FALSE]

SYSTEMD == <<"s", "y", "s", "t", "e", "m", "d">>
SYSTEMD_HASH == <<"s", "y", "s", "t", "e", "m", "d", "#">>

(* parse_systemd_fd, were the index taken as it is written. *)
parse_systemd_fd_ZeroBased(s) ==
  CASE s = SYSTEMD -> SystemdFd(0)
    [] s # SYSTEMD /\ StartsWith(s, SYSTEMD_HASH) ->
         LET n == ParseUsize(SubSeq(s, 9, Len(s)))
         IN IF ~n.ok THEN AddrError ELSE SystemdFd(n.n)
    [] OTHER -> AddrError

parse_systemd_fd(s) ==
  CASE s = SYSTEMD -> SystemdFd(0)
    [] s # SYSTEMD /\ StartsWith(s, SYSTEMD_HASH) ->
         LET n == ParseUsize(SubSeq(s, 9, Len(s)))
         IN IF ~n.ok THEN AddrError
            ELSE IF n.n = 0 THEN AddrError
            ELSE SystemdFd(n.n - 1)
    [] OTHER -> AddrError

(* SocketAddr's Deserialize, for IPv4: four octets, a colon and a port.    *)
IsOctet(s) ==
  AllDigits(s) /\ Len(s) <= 3 /\ (Len(s) > 1 => s[1] # "0") /\ DecValue(s) <= 255
IsPort(s) == AllDigits(s) /\ Len(s) <= 5 /\ DecValue(s) <= 65535
SocketAddrFromStr(s) ==
  LET parts == Fields(s, ":") IN
  IF Len(parts) # 2 THEN AddrError
  ELSE LET octets == Fields(parts[1], ".") IN
       IF Len(octets) = 4 /\ (\A i \in 1..4 : IsOctet(octets[i])) /\ IsPort(parts[2])
       THEN SocketAddr([i \in 1..4 |-> DecValue(octets[i])], DecValue(parts[2]))
       ELSE AddrError

(* SocketListenAddr, untagged: SocketAddr first, then SystemdFd through    *)
(* parse_systemd_fd.                                                       *)
SocketListenAddr(s) ==
  IF SocketAddrFromStr(s) # AddrError THEN SocketAddrFromStr(s) ELSE parse_systemd_fd(s)

(* impl fmt::Display for SocketListenAddr *)
fmt(addr) ==
  IF addr.kind = "SocketAddr"
  THEN ToDec(addr.ip[1]) \o <<".">> \o ToDec(addr.ip[2]) \o <<".">> \o ToDec(addr.ip[3])
         \o <<".">> \o ToDec(addr.ip[4]) \o <<":">> \o ToDec(addr.port)
  ELSE <<"s", "y", "s", "t", "e", "m", "d", " ", "s", "o", "c", "k", "e", "t", " ", "#">> \o ToDec(addr.offset)

(* The texts a configuration is given: "systemd" followed by up to MaxTail *)
(* characters, and some that do not start so.                              *)
TailChars == {"#", "+", "0", "1", "3", " "}
OtherTexts ==
  { <<>>, <<"1", "2", "7", ".", "1", ".", "2", ".", "3", ":", "1", "2", "3", "4">>, <<"1", "2", "7", ".", "1", ".", "2", ".", "3">>, <<"1", ".", "2", ".", "3", ":", "8", "0">>, <<"2", "5", "6", ".", "1", ".", "2", ".", "3", ":", "8", "0">>, <<"1", ".", "2", ".", "3", ".", "4", ":", "6", "5", "5", "3", "6">>, <<"0", ".", "0", ".", "0", ".", "0", ":", "0">>, <<"s", "y", "s", "t", "e", "m">>, <<"S", "y", "s", "t", "e", "m", "d", "#", "1">>, <<"#", "1">>, <<"1">>, <<"s", "y", "s", "t", "e", "m", "d", ":", "1">> }
AddrTexts == {SYSTEMD \o t : t \in SeqsUpTo(TailChars, MaxTail)} \cup OtherTexts

Unparsed == [kind |-> "Unparsed"]
NotShown == [kind |-> "NotShown"]
Configured == [text |-> <<>>, addr |-> [kind |-> "Configured"], shown |-> NotShown]

(***************************************************************************)
(* State.                                                                  *)
(*   address   the source's listen address: the configuration's text, the  *)
(*             SocketListenAddr it deserialized to, and the address whose  *)
(*             display form the text is, if it is one; Configured once     *)
(*             the source runs                                             *)
(*   run       the listener future of TcpSource::run: "config" (not        *)
(*             started), "init", "listening", "stopped" (completed Ok) or  *)
(*             "failed" (completed Err)                                    *)
(*   shutdown  the ShutdownSignal has fired                                *)
(*   tripwire  the shared tripwire future has completed                    *)
(*   gauge     connection_gauge, the number of open tokens                 *)
(*   conn      per connection: the peer, the socket, the handler task's    *)
(*             position, its FramedRead and FluentDecoder, its Forward     *)
(*             and its clone of the sink                                   *)
(***************************************************************************)
VARIABLES address, run, shutdown, tripwire, gauge, out, conn
vars == <<address, run, shutdown, tripwire, gauge, out, conn>>

Conns == 1..MaxConns
Host(c) == <<48 + c>>

(* pc: "absent" (no peer), "pending" (peer connecting), "accept_failed"    *)
(* (the acceptance yielded an error, no task), "handshake", "stream" (the  *)
(* forward loop) or "done" (task exited, exit says how; the socket, the    *)
(* reader and the sink handle are dropped with the task).                  *)
(* msgs is what the peer sends, wire the bytes not yet read, reads how the *)
(* socket hands them out ("any": in pieces of any size, "all": whatever    *)
(* is left at once).  buffered_item is the event Forward holds while the   *)
(* pipeline applies backpressure; out is the pipeline, "open" or "closed"  *)
(* (every send fails).  yielded and sent are histories: what FramedRead    *)
(* yielded (a frame, or an error and where it arose: the socket, decode,   *)
(* or decode_eof's own check), what the pipeline received.                 *)
NewConn(pc, msgs, reads) ==
  [pc |-> pc, exit |-> "", msgs |-> msgs, wire |-> StreamBytes(msgs),
   reads |-> reads, peer_closed |-> FALSE,
   buffer |-> <<>>, eof |-> FALSE, is_readable |-> FALSE,
   unread_frames |-> <<>>,
   shutdown_token |-> FALSE, write_shutdowns |-> 0,
   buffered_item |-> <<>>,
   yielded |-> <<>>, sent |-> <<>>]

Init ==
  /\ address = Configured
  /\ run = "init"
  /\ shutdown = FALSE
  /\ tripwire = FALSE
  /\ gauge = 0
  /\ out = "open"
  /\ \E s \in RuntimeStreams \cup PanickingStreams, t \in HostKeyStreams :
       conn = [c \in Conns |-> NewConn("pending", IF c = 1 THEN s ELSE t, "all")]

(* One peer, any stream of the catalogue. *)
InitCodec ==
  /\ address = Configured
  /\ run = "init"
  /\ shutdown = FALSE
  /\ tripwire = FALSE
  /\ gauge = 0
  /\ out = "open"
  /\ \E s \in CodecStreams :
       conn = [c \in Conns |-> IF c = 1 THEN NewConn("pending", s, "any")
                               ELSE NewConn("absent", <<>>, "any")]

(***************************************************************************)
(* TcpSource::run.                                                         *)
(***************************************************************************)
(* What the operating system answers to make_listener: for a socket       *)
(* address the outcome of tls.bind, for an inherited descriptor the        *)
(* outcome of take_tcp_listener and of TcpListener::from_std.              *)
Listens ==
  [addr : {"SocketAddr"}, bind : {"Ok", "Err"}]
    \cup [addr : {"SystemdFd"}, take : {"Some", "None", "Err"},
          from_std : {"Ok", "Err"}]

(* make_listener, were an absent or taken descriptor passed over. *)
make_listener_AbsentFdPassed(l) ==
  CASE l.addr = "SocketAddr" -> IF l.bind = "Ok" THEN "Some" ELSE "None"
    [] l.addr = "SystemdFd" ->
         CASE l.take = "Some" -> IF l.from_std = "Ok" THEN "Some" ELSE "None"
           [] l.take = "None" -> "Some"
           [] l.take = "Err" -> "None"

make_listener(l) ==
  CASE l.addr = "SocketAddr" -> IF l.bind = "Ok" THEN "Some" ELSE "None"
    [] l.addr = "SystemdFd" ->
         CASE l.take = "Some" -> IF l.from_std = "Ok" THEN "Some" ELSE "None"
           [] l.take = "None" -> "None"
           [] l.take = "Err" -> "None"

(* let listener = match make_listener(..) { None => return Err(()), .. } *)
RunListener(l) ==
  IF make_listener(l) = "None" THEN "failed" ELSE "listening"

Bind ==
  /\ run = "init"
  /\ \E l \in Listens : run' = RunListener(l)
  /\ UNCHANGED <<address, shutdown, tripwire, gauge, out, conn>>

(* OpenGauge::open: one more open token; the token, dropped, takes it     *)
(* back.                                                                   *)
OpenGauge_open(count) == count + 1

OpenToken_drop(count) == count - 1

(* Accept, were the accept stream not cut by take_until(shutdown_clone). *)
Accept_NoTakeUntil(c) ==
  /\ run = "listening"
  /\ conn[c].pc = "pending"
  /\ gauge' = OpenGauge_open(gauge)
  /\ conn' = [conn EXCEPT ![c].pc = "handshake"]
  /\ UNCHANGED <<address, run, shutdown, tripwire, out>>

(* accept_stream().take_until(shutdown_clone).for_each(..): one accepted   *)
(* socket: open the gauge token and spawn handle_stream.                   *)
Accept(c) ==
  /\ run = "listening"
  /\ ~shutdown
  /\ conn[c].pc = "pending"
  /\ gauge' = OpenGauge_open(gauge)
  /\ conn' = [conn EXCEPT ![c].pc = "handshake"]
  /\ UNCHANGED <<address, run, shutdown, tripwire, out>>

(* MaybeTlsListener::accept_stream: what one acceptance yields, a socket   *)
(* or an error; the stream does not end by itself.                         *)
accept_stream == {"Ok", "Err"}

(* AcceptError, were the accept loop to end on it. *)
AcceptError_Fatal(c) ==
  /\ run = "listening"
  /\ ~shutdown
  /\ conn[c].pc = "pending"
  /\ run' = "failed"
  /\ conn' = [conn EXCEPT ![c].pc = "accept_failed"]
  /\ UNCHANGED <<address, shutdown, tripwire, gauge, out>>

(* The accept stream yields Err for a peer: the error is logged, the      *)
(* closure returns and for_each takes the next item.                       *)
AcceptError(c) ==
  /\ run = "listening"
  /\ ~shutdown
  /\ "Err" \in accept_stream
  /\ conn[c].pc = "pending"
  /\ conn' = [conn EXCEPT ![c].pc = "accept_failed"]
  /\ UNCHANGED <<address, run, shutdown, tripwire, gauge, out>>

(* take_until(shutdown_clone) ends the accept stream; the future is Ok. *)
AcceptLoopEnd ==
  /\ run = "listening"
  /\ shutdown
  /\ run' = "stopped"
  /\ UNCHANGED <<address, shutdown, tripwire, gauge, out, conn>>

(***************************************************************************)
(* The environment: the shutdown signal, the tripwire's sleep, the peer    *)
(* closing its side and the pipeline's failure.                            *)
(***************************************************************************)
Shutdown ==
  /\ ~shutdown
  /\ shutdown' = TRUE
  /\ UNCHANGED <<address, run, tripwire, gauge, out, conn>>

Tripwire ==
  /\ shutdown
  /\ ~tripwire
  /\ tripwire' = TRUE
  /\ UNCHANGED <<address, run, shutdown, gauge, out, conn>>

PeerClose(c) ==
  /\ conn[c].pc \in {"handshake", "stream"}
  /\ conn[c].wire = <<>>
  /\ ~conn[c].peer_closed
  /\ conn' = [conn EXCEPT ![c].peer_closed = TRUE]
  /\ UNCHANGED <<address, run, shutdown, tripwire, gauge, out>>

SinkClosed ==
  /\ out = "open"
  /\ out' = "closed"
  /\ UNCHANGED <<address, run, shutdown, tripwire, gauge, conn>>

(***************************************************************************)
(* handle_stream.  The task exits through Exit, where the open token is    *)
(* dropped (fut.map(move |()| drop(open_token)), or the unwinding of a     *)
(* panic).                                                                 *)
(***************************************************************************)
Exit_TokenForgotten(c, how, r) ==
  /\ conn' = [conn EXCEPT ![c] =
                [NewConn("done", r.msgs, r.reads) EXCEPT
                   !.exit = how, !.wire = <<>>, !.yielded = r.yielded,
                   !.sent = r.sent, !.write_shutdowns = r.write_shutdowns]]
  /\ gauge' = IF how = "sink" THEN gauge ELSE OpenToken_drop(gauge)
  /\ UNCHANGED <<address, run, shutdown, tripwire, out>>

(* Exit, were the task's end to take the other handlers with it. *)
Exit_EndsPeers(c, how, r) ==
  /\ conn' = [d \in Conns |->
                IF d = c \/ conn[d].pc \in {"handshake", "stream"}
                THEN [NewConn("done", conn[d].msgs, conn[d].reads) EXCEPT
                        !.exit = how, !.wire = <<>>,
                        !.yielded = IF d = c THEN r.yielded ELSE conn[d].yielded,
                        !.sent = IF d = c THEN r.sent ELSE conn[d].sent,
                        !.write_shutdowns = conn[d].write_shutdowns]
                ELSE conn[d]]
  /\ gauge' = 0
  /\ UNCHANGED <<address, run, shutdown, tripwire, out>>

Exit(c, how, r) ==
  /\ conn' = [conn EXCEPT ![c] =
                [NewConn("done", r.msgs, r.reads) EXCEPT
                   !.exit = how, !.wire = <<>>, !.yielded = r.yielded,
                   !.sent = r.sent, !.write_shutdowns = r.write_shutdowns]]
  /\ gauge' = OpenToken_drop(gauge)
  /\ UNCHANGED <<address, run, shutdown, tripwire, out>>

Stay(c, r) ==
  /\ conn' = [conn EXCEPT ![c] = r]
  /\ UNCHANGED <<address, run, shutdown, tripwire, gauge, out>>

(* select! { socket.handshake(), &mut shutdown_signal } *)
HandshakeOk(c) ==
  /\ conn[c].pc = "handshake"
  /\ Stay(c, [conn[c] EXCEPT !.pc = "stream"])

HandshakeError(c) ==
  /\ conn[c].pc = "handshake"
  /\ Exit(c, "handshake", conn[c])

HandshakeShutdown(c) ==
  /\ conn[c].pc = "handshake"
  /\ shutdown
  /\ Exit(c, "shutdown", conn[c])

(* Forward with an item in hand: poll_ready, then start_send.  The item   *)
(* stays buffered while the sink is pending; a sink error ends the task.   *)
Forward(c, r, item, poll_ready) ==
  CASE out = "closed" -> Exit(c, "sink", r)
    [] poll_ready = "Pending" -> Stay(c, [r EXCEPT !.buffered_item = <<item>>])
    [] OTHER ->
         Stay(c, [r EXCEPT !.sent = Append(@, item), !.buffered_item = <<>>])

(* A later poll with the item still buffered. *)
ForwardSend(c) ==
  /\ conn[c].pc = "stream"
  /\ conn[c].buffered_item # <<>>
  /\ out = "open"
  /\ Forward(c, conn[c], conn[c].buffered_item[1], "Ready")

ForwardSinkError(c) ==
  /\ conn[c].pc = "stream"
  /\ conn[c].buffered_item # <<>>
  /\ out = "closed"
  /\ Forward(c, conn[c], conn[c].buffered_item[1], "Ready")

(* Forward polls the stream only with no item buffered. *)
Polling(c) == conn[c].pc = "stream" /\ conn[c].buffered_item = <<>>

(* take_until(tripwire): the stream ends once the tripwire is ready. *)
TakeUntilTripwire(c) ==
  /\ Polling(c)
  /\ tripwire
  /\ Exit(c, "tripwire", conn[c])

(* StartGracefulShutdown, were the token not kept. *)
StartGracefulShutdown_TokenNotKept(c) ==
  /\ Polling(c)
  /\ ~tripwire
  /\ shutdown
  /\ ~conn[c].shutdown_token
  /\ conn[c].write_shutdowns < 3
  /\ Stay(c, [conn[c] EXCEPT !.write_shutdowns = @ + 1])

(* poll_fn: the first poll that sees the shutdown signal closes the write  *)
(* half of the socket and keeps the token.                                 *)
StartGracefulShutdown(c) ==
  /\ Polling(c)
  /\ ~tripwire
  /\ shutdown
  /\ ~conn[c].shutdown_token
  /\ Stay(c, [conn[c] EXCEPT !.shutdown_token = TRUE,
                             !.write_shutdowns = @ + 1])

(* reader.poll_next_unpin(cx) is reached past take_until and poll_fn. *)
ReaderPolled(c) ==
  /\ Polling(c)
  /\ ~tripwire
  /\ shutdown => conn[c].shutdown_token

(* FramedRead, not readable: read the socket into the buffer. *)
Read(c, n) ==
  /\ ReaderPolled(c)
  /\ ~conn[c].is_readable
  /\ n \in 1..Len(conn[c].wire)
  /\ conn[c].reads = "all" => n = Len(conn[c].wire)
  /\ Stay(c, [conn[c] EXCEPT !.buffer = @ \o SubSeq(conn[c].wire, 1, n),
                             !.wire = SubSeq(@, n + 1, Len(@)),
                             !.is_readable = TRUE])

ReadEof(c) ==
  /\ ReaderPolled(c)
  /\ ~conn[c].is_readable
  /\ conn[c].wire = <<>>
  /\ conn[c].peer_closed
  /\ Stay(c, [conn[c] EXCEPT !.eof = TRUE, !.is_readable = TRUE])

(* The socket read fails: io::Error, fatal, take_while ends the stream. *)
ReadError(c) ==
  /\ ReaderPolled(c)
  /\ ~conn[c].is_readable
  /\ is_error_fatal("IO")
  /\ Exit(c, "fatal", [conn[c] EXCEPT
                          !.yielded = Append(@, [err |-> "IO", from |-> "socket"])])

(* FramedRead, readable: decode (decode_eof after EOF); then take_while,   *)
(* filter_map with build_event, and Forward.                               *)
Decoded(c, d, r, from) ==
  CASE d.ret = "some" ->
         \E poll_ready \in {"Ready", "Pending"} :
           Forward(c, [r EXCEPT !.yielded = Append(@, [frame |-> d.frame[1]])],
                   build_event(d.frame[1], Host(c)), poll_ready)
    [] d.ret = "err" ->
         IF is_error_fatal(d.err)
         THEN Exit(c, "fatal",
                   [r EXCEPT !.yielded = Append(@, [err |-> d.err, from |-> from])])
         ELSE Stay(c, [r EXCEPT !.yielded = Append(@, [err |-> d.err, from |-> from])])
    [] d.ret = "none" ->
         IF r.eof THEN Exit(c, "eof", r)
         ELSE Stay(c, [r EXCEPT !.is_readable = FALSE])
    [] d.ret = "panic" -> Exit(c, "panic", r)

PollDecoder(c, d, from) ==
  Decoded(c, d, [conn[c] EXCEPT !.buffer = d.src, !.unread_frames = d.unread_frames],
          from)

(* d is what decode returned; after EOF, decode_eof makes of it. *)
PollDecode(c, d) ==
  IF conn[c].eof
  THEN PollDecoder(c, BytesRemaining(d),
                   IF d.ret = "none" /\ d.src # <<>> THEN "decode_eof" ELSE "decode")
  ELSE PollDecoder(c, d, "decode")

Decode(c) ==
  /\ ReaderPolled(c)
  /\ conn[c].is_readable
  /\ PollDecode(c, decode(conn[c].buffer, conn[c].unread_frames))

Next ==
  \/ Bind
  \/ AcceptLoopEnd
  \/ Shutdown
  \/ Tripwire
  \/ \E c \in Conns : Accept(c)
  \/ \E c \in Conns : AcceptError(c)
  \/ \E c \in Conns : PeerClose(c)
  \/ SinkClosed
  \/ \E c \in Conns : HandshakeOk(c)
  \/ \E c \in Conns : HandshakeError(c)
  \/ \E c \in Conns : HandshakeShutdown(c)
  \/ \E c \in Conns : ForwardSend(c)
  \/ \E c \in Conns : ForwardSinkError(c)
  \/ \E c \in Conns : TakeUntilTripwire(c)
  \/ \E c \in Conns : StartGracefulShutdown(c)
  \/ \E c \in Conns : \E n \in 1..Len(conn[c].wire) : Read(c, n)
  \/ \E c \in Conns : ReadEof(c)
  \/ \E c \in Conns : ReadError(c)
  \/ \E c \in Conns : Decode(c)

Spec == Init /\ [][Next]_vars

(* The codec under every stream of the catalogue and every way the socket  *)
(* splits it: one connection, no shutdown signal, a pipeline that may      *)
(* apply backpressure but does not fail.                                   *)
NextCodec ==
  \/ Bind
  \/ \E c \in Conns : Accept(c)
  \/ \E c \in Conns : PeerClose(c)
  \/ \E c \in Conns : HandshakeOk(c)
  \/ \E c \in Conns : ForwardSend(c)
  \/ \E c \in Conns : \E n \in 1..Len(conn[c].wire) : Read(c, n)
  \/ \E c \in Conns : ReadEof(c)
  \/ \E c \in Conns : ReadError(c)
  \/ \E c \in Conns : Decode(c)

SpecCodec == InitCodec /\ [][NextCodec]_vars

(***************************************************************************)
(* The configuration's listen address: deserialized from its text, and,    *)
(* once, displayed and deserialized again.                                 *)
(***************************************************************************)
InitAddr ==
  /\ \E text \in AddrTexts : address = [text |-> text, addr |-> Unparsed, shown |-> NotShown]
  /\ run = "config"
  /\ shutdown = FALSE
  /\ tripwire = FALSE
  /\ gauge = 0
  /\ out = "open"
  /\ conn = [c \in Conns |-> NewConn("absent", <<>>, "any")]

Deserialize ==
  /\ address.addr = Unparsed
  /\ address' = [address EXCEPT !.addr = SocketListenAddr(address.text)]
  /\ UNCHANGED <<run, shutdown, tripwire, gauge, out, conn>>

Display ==
  /\ address.addr.kind \in {"SocketAddr", "SystemdFd"}
  /\ address.shown = NotShown
  /\ address' = [text |-> fmt(address.addr), addr |-> Unparsed, shown |-> address.addr]
  /\ UNCHANGED <<run, shutdown, tripwire, gauge, out, conn>>

NextAddr ==
  \/ Deserialize
  \/ Display

SpecAddr == InitAddr /\ [][NextAddr]_vars

(***************************************************************************)
(* What the peer meant.  The frames of a message as the catalogue gives    *)
(* it, and the events a connection owes for them; none of this goes        *)
(* through the decoder.                                                    *)
(***************************************************************************)
ExpectedRecord(rec) ==
  [key \in {rec[i][1] : i \in 1..Len(rec)} |->
     VInt(rec[CHOOSE i \in 1..Len(rec) : rec[i][1] = key][2])]

ExpectedFrame(m, i) ==
  FluentFrame(m.tag,
              Timestamp(m.entries[i].ts,
                        IF m.entries[i].ext = <<>> THEN 0 ELSE m.entries[i].ext[3]),
              ExpectedRecord(m.entries[i].rec))

ExpectedFrames(m) == [i \in 1..Len(m.entries) |-> ExpectedFrame(m, i)]

ExpectedFramesOf == [m \in Zoo |-> ExpectedFrames(Catalogue[m])]
FramesOfStream(msgs) == Concat([i \in 1..Len(msgs) |-> ExpectedFramesOf[msgs[i]]])

EventsOf(frames, host) == [i \in 1..Len(frames) |-> build_event(frames[i], host)]

(* decode handles the message without error: what the peer sent is well    *)
(* formed, or its only fault is a compression the shape does not look at.  *)
NoError(m) ==
  \/ m.good
  \/ m.shape \in {"MessageWithOptions", "ForwardWithOptions"} /\ m.junk = <<>>

NoErrors == {m \in Zoo : NoError(Catalogue[m])}
AllGood(msgs) == \A i \in 1..Len(msgs) : Catalogue[msgs[i]].good
AllNoError(msgs) == \A i \in 1..Len(msgs) : msgs[i] \in NoErrors

IsFrame(y) == "frame" \in DOMAIN y
IsErr(y) == "err" \in DOMAIN y
FramesIn(yielded) ==
  [i \in 1..Len(SelectSeq(yielded, IsFrame)) |-> SelectSeq(yielded, IsFrame)[i].frame]
ErrorsIn(yielded) ==
  [i \in 1..Len(SelectSeq(yielded, IsErr)) |-> SelectSeq(yielded, IsErr)[i].err]

(* The messages of the catalogue that are one MessagePack value on the     *)
(* wire (r is what reading bytes b gave), and the streams made of them:    *)
(* there the decoder meets each message at its first byte.                 *)
EndsValue(b, r) == r.st \in {"ok", "err"} /\ r.pos = Len(b) + 1
Delimited == {m \in Zoo : EndsValue(WireOf[m], ReadValue(WireOf[m], 1))}
Framed(msgs) == \A i \in 1..Len(msgs) : msgs[i] \in Delimited

(* The bytes the decoder has taken out of the buffer, and the number of    *)
(* leading messages they make up (-1 when they end inside a message, or    *)
(* the stream is not framed).                                              *)
WireLen == [m \in Zoo |-> Len(WireOf[m])]
RECURSIVE StreamLen(_, _)
StreamLen(msgs, k) == IF k = 0 THEN 0 ELSE WireLen[msgs[k]] + StreamLen(msgs, k - 1)
Consumed(r) == StreamLen(r.msgs, Len(r.msgs)) - Len(r.wire) - Len(r.buffer)
EndsAt(msgs, k, n) == StreamLen(msgs, k) = n
HandledUpTo(r) ==
  IF Framed(r.msgs) /\ \E k \in 0..Len(r.msgs) : EndsAt(r.msgs, k, Consumed(r))
  THEN CHOOSE k \in 0..Len(r.msgs) : EndsAt(r.msgs, k, Consumed(r))
  ELSE -1

(* The handler has read all the peer sent, has nothing readable left and   *)
(* no event in hand: it waits for the socket, and the peer is silent.      *)
Quiet(r) ==
  /\ r.pc = "stream"
  /\ r.wire = <<>>
  /\ ~r.peer_closed
  /\ ~r.is_readable
  /\ r.buffered_item = <<>>

(* C1 (as claimed): order preservation.  On every connection whose peer    *)
(* sent well-formed messages, once the handler has read all of them and    *)
(* waits for more (or has seen the end of the stream), the events          *)
(* forwarded to the sink are the frames of the messages, message after     *)
(* message in wire order and entry after entry within a message, each      *)
(* under its message's tag.                                                *)
C1_OrderPreservation ==
  \A c \in Conns :
    (AllGood(conn[c].msgs) /\ (Quiet(conn[c]) \/ conn[c].exit = "eof"))
      => conn[c].sent = EventsOf(FramesOfStream(conn[c].msgs), Host(c))

(* C1, the case the code gets right: a Forward and a PackedForward in one  *)
(* stream, read to its end, forwarded as four events in wire order.        *)
C1_Witness ==
  /\ conn[1].msgs = <<3, 4>>
  /\ conn[1].exit = "eof"
  /\ conn[1].sent = EventsOf(FramesOfStream(<<3, 4>>), Host(1))
  /\ Len(conn[1].sent) = 4

(* The number of messages among the first k of msgs that are message m. *)
Occurrences(msgs, k, m) == Cardinality({i \in 1..k : msgs[i] = m})
CountOf(frames, frame) == Cardinality({i \in 1..Len(frames) : frames[i] = frame})

(* The frames the decoder has returned or still queues, against the k      *)
(* messages it has handled: a stream of messages handled without error     *)
(* gives exactly their frames, in order; in any stream, each entry of a    *)
(* message handled without error has one frame for each time the message   *)
(* was handled.                                                            *)
FramesAccountFor(frames, msgs, k) ==
  IF AllNoError(msgs) THEN frames = FramesOfStream(SubSeq(msgs, 1, k))
  ELSE \A m \in NoErrors :
         \A i \in 1..Len(ExpectedFramesOf[m]) :
           IF \E n \in 1..k : msgs[n] = m
           THEN CountOf(frames, ExpectedFramesOf[m][i]) = Occurrences(msgs, k, m)
           ELSE \A j \in 1..Len(frames) : frames[j] # ExpectedFramesOf[m][i]

(* C2: completeness.  Every message that decode handles without error      *)
(* gives exactly one frame if it is a Message or MessageWithOptions, one    *)
(* frame per entry if it is a Forward, ForwardWithOptions, PackedForward    *)
(* or PackedForwardWithOptions, and none if it is a nil Heartbeat: at any   *)
(* time the frames returned so far and those still queued are the frames    *)
(* of the messages taken from the buffer, and at the end of the stream all  *)
(* of them have been returned.                                              *)
C2_Completeness ==
  \A c \in Conns :
    /\ (conn[c].pc = "stream" /\ HandledUpTo(conn[c]) >= 0)
         => FramesAccountFor(FramesIn(conn[c].yielded) \o conn[c].unread_frames,
                             conn[c].msgs, HandledUpTo(conn[c]))
    /\ (conn[c].exit = "eof" /\ Framed(conn[c].msgs))
         => FramesAccountFor(FramesIn(conn[c].yielded), conn[c].msgs, Len(conn[c].msgs))

(* C2: a nil Heartbeat, a Forward of two entries and a PackedForward of    *)
(* two entries were handled; the four frames are out, none is queued.      *)
C2_Witness ==
  /\ conn[1].msgs = <<1, 3, 4>>
  /\ conn[1].pc = "stream"
  /\ HandledUpTo(conn[1]) = 3
  /\ Len(FramesIn(conn[1].yielded)) = 4
  /\ conn[1].unread_frames = <<>>

(* The codec fed a whole stream at once: decode called again and again on  *)
(* the one buffer until it returns None (or a fatal error), as FramedRead  *)
(* calls it between two reads; d is what the last call returned.           *)
RECURSIVE Drain(_, _)
Drain(d, acc) ==
  CASE d.ret = "some" ->
         Drain(decode(d.src, d.unread_frames), Append(acc, [frame |-> d.frame[1]]))
    [] d.ret = "err" /\ ~is_error_fatal(d.err) ->
         Drain(decode(d.src, d.unread_frames),
               Append(acc, [err |-> d.err, from |-> "decode"]))
    [] d.ret = "err" /\ is_error_fatal(d.err) ->
         Append(acc, [err |-> d.err, from |-> "decode"])
    [] OTHER -> acc

AtOnce(bytes) == Drain(decode(bytes, <<>>), <<>>)

(* C3 (as claimed): idempotent framing.  However the socket splits a       *)
(* stream into reads, once the handler has decoded all that arrived the    *)
(* frames and errors the codec produced are those it produces when the     *)
(* whole stream is in the buffer at once.                                  *)
C3_IdempotentFraming ==
  \A c \in Conns :
    Quiet(conn[c]) => conn[c].yielded = AtOnce(StreamBytes(conn[c].msgs))

(* A complete MessagePack value stands at the head of the buffer. *)
HoldsCompleteMessage(buf) == buf # <<>> /\ ReadValue(buf, 1).st = "ok"

(* C4 (as claimed): decode returns None only when it needs more bytes.     *)
(* FramedRead stops being readable exactly when decode returned None, and  *)
(* then the buffer is empty or holds an incomplete prefix of a message,    *)
(* never a complete one.                                                   *)
C4_NoneOnlyWhenIncomplete ==
  \A c \in Conns :
    (conn[c].pc = "stream" /\ ~conn[c].is_readable /\ ~conn[c].eof)
      => ~HoldsCompleteMessage(conn[c].buffer)

(* C5 (as claimed): a nil Heartbeat and then a Message.  The Heartbeat     *)
(* gives no event and no decode error; the Message gives exactly one       *)
(* event, also when both came in one read and the peer sends no more.      *)
C5_HeartbeatThenMessage ==
  \A c \in Conns :
    conn[c].msgs = <<1, 2>> =>
      /\ \A i \in 1..Len(conn[c].yielded) :
           IsErr(conn[c].yielded[i]) => conn[c].yielded[i].from = "socket"
      /\ Len(conn[c].sent) <= 1
      /\ Quiet(conn[c]) => conn[c].sent = EventsOf(ExpectedFramesOf[2], Host(c))

(* C5, the split the code gets right: the Heartbeat in one read, the       *)
(* Message in a later one.                                                 *)
C5_Witness ==
  /\ conn[1].msgs = <<1, 2>>
  /\ Quiet(conn[1])
  /\ conn[1].buffer = <<>>
  /\ conn[1].sent = EventsOf(ExpectedFramesOf[2], Host(1))

Last(s) == s[Len(s)]

(* C6 (as claimed): error classification.  A handler that closed its       *)
(* connection over an error closed it over an I/O error of the socket      *)
(* (the error the framing raises for a stream that ends inside a message   *)
(* counted with them), never over what a message contains.                 *)
C6_ErrorClassification ==
  \A c \in Conns :
    conn[c].exit = "fatal" => Last(conn[c].yielded).from \in {"socket", "decode_eof"}

(* C6, the errors the code does classify as the claim says: an unknown     *)
(* compression is yielded, the handler reads on and forwards the Message   *)
(* behind it.                                                              *)
C6_Witness ==
  /\ conn[1].msgs = <<5, 2>>
  /\ conn[1].pc = "stream"
  /\ ErrorsIn(conn[1].yielded) = <<"UnknownCompression">>
  /\ Len(conn[1].sent) = 1

(* The messages of the catalogue the codec answers with an error that is   *)
(* not fatal.                                                              *)
HasError(yielded) == \E i \in 1..Len(yielded) : IsErr(yielded[i])
HasFatalError(yielded) ==
  \E i \in 1..Len(yielded) : IsErr(yielded[i]) /\ is_error_fatal(yielded[i].err)
NonFatallyBad ==
  {m \in Zoo : HasError(AtOnce(WireOf[m])) /\ ~HasFatalError(AtOnce(WireOf[m]))}

(* C7 (as claimed): a message that causes a non-fatal decode error is      *)
(* skipped exactly.  For a stream m1, bad, m3 with m1 and m3 well formed,  *)
(* read to its end, the events forwarded are those of m1 followed by those *)
(* of m3.                                                                  *)
C7_BadMessageSkipped ==
  \A c \in Conns :
    ( /\ Len(conn[c].msgs) = 3
      /\ Catalogue[conn[c].msgs[1]].good
      /\ conn[c].msgs[2] \in NonFatallyBad
      /\ Catalogue[conn[c].msgs[3]].good
      /\ conn[c].exit = "eof" )
      => conn[c].sent =
           EventsOf(ExpectedFramesOf[conn[c].msgs[1]] \o ExpectedFramesOf[conn[c].msgs[3]],
                    Host(c))

(* C7, the spec's own example, which the code gets right: the middle       *)
(* message has compressed "snappy".                                        *)
C7_Witness ==
  /\ conn[1].msgs = <<2, 5, 3>>
  /\ conn[1].exit = "eof"
  /\ conn[1].sent = EventsOf(ExpectedFramesOf[2] \o ExpectedFramesOf[3], Host(1))

(* Messages with options whose compressed is neither "text" nor "gzip";    *)
(* those among them that are PackedForwardWithOptions.                     *)
HasOptions(m) ==
  m.shape \in {"MessageWithOptions", "ForwardWithOptions", "PackedForwardWithOptions"}
UnknownCompressions == {m \in Zoo : HasOptions(Catalogue[m])
                                     /\ Catalogue[m].comp \notin {TEXT, GZIP}}
UnknownPacked == {m \in UnknownCompressions :
                    Catalogue[m].shape = "PackedForwardWithOptions"}

(* No frame of a message of ms is among frames. *)
NoFrameOf(frames, ms) ==
  \A m \in ms : \A i \in 1..Len(ExpectedFramesOf[m]) :
    \A j \in 1..Len(frames) : frames[j] # ExpectedFramesOf[m][i]

UnknownCompressionErrors(yielded) ==
  Cardinality({i \in 1..Len(yielded) :
                 IsErr(yielded[i]) /\ yielded[i].err = "UnknownCompression"})
OccurrencesOf(msgs, k, ms) == Cardinality({i \in 1..k : msgs[i] \in ms})

(* C8 (as claimed): every message with options whose compressed is neither *)
(* "text" nor "gzip" gives no frame.                                       *)
C8_UnknownCompressionAnyShape ==
  \A c \in Conns :
    Framed(conn[c].msgs)
      => NoFrameOf(FramesIn(conn[c].yielded) \o conn[c].unread_frames, UnknownCompressions)

(* C8 (amended): a PackedForwardWithOptions whose compressed is neither     *)
(* "text" nor "gzip" gives an UnknownCompression error and no frame; a      *)
(* MessageWithOptions or ForwardWithOptions gives its frames whatever its   *)
(* compressed says, and a PackedForwardWithOptions with "text" gives the    *)
(* frames of its payload as it stands.                                      *)
C8_UnknownCompressionPacked ==
  \A c \in Conns :
    /\ Framed(conn[c].msgs)
         => NoFrameOf(FramesIn(conn[c].yielded) \o conn[c].unread_frames, UnknownPacked)
    /\ (conn[c].pc = "stream" /\ HandledUpTo(conn[c]) >= 0)
         => UnknownCompressionErrors(conn[c].yielded)
              = OccurrencesOf(conn[c].msgs, HandledUpTo(conn[c]), UnknownPacked)
    /\ ( /\ Len(conn[c].msgs) = 1
         /\ HasOptions(Catalogue[conn[c].msgs[1]])
         /\ Catalogue[conn[c].msgs[1]].junk = <<>>
         /\ \/ Catalogue[conn[c].msgs[1]].shape # "PackedForwardWithOptions"
            \/ Catalogue[conn[c].msgs[1]].comp = TEXT
         /\ conn[c].exit = "eof" )
         => conn[c].yielded =
              [i \in 1..Len(ExpectedFramesOf[conn[c].msgs[1]]) |->
                 [frame |-> ExpectedFramesOf[conn[c].msgs[1]][i]]]

(* C8: the PackedForwardWithOptions with "snappy" has been taken from the  *)
(* buffer and answered with the error.                                     *)
C8_Witness ==
  /\ conn[1].msgs = <<5>>
  /\ conn[1].pc = "stream"
  /\ conn[1].buffer = <<>>
  /\ conn[1].wire = <<>>
  /\ conn[1].yielded = <<[err |-> "UnknownCompression", from |-> "decode"]>>

(* C9: no new connection is accepted after the shutdown signal.  A step    *)
(* taken with the signal fired accepts no pending peer, spawns no handler  *)
(* and does not raise the open-connection gauge.                           *)
C9_NoAcceptAfterShutdown ==
  [][shutdown =>
       /\ gauge' <= gauge
       /\ \A c \in Conns : conn[c].pc = "pending" => conn'[c].pc = "pending"]_vars

(* C9: the signal has fired with the listener still up, one peer accepted  *)
(* before it and one still waiting to be accepted.                         *)
C9_Witness ==
  /\ shutdown
  /\ run = "listening"
  /\ \E c \in Conns : conn[c].pc = "pending"
  /\ \E c \in Conns : conn[c].pc = "stream"

(* C10 (as claimed): the shutdown bound.  Once the tripwire has fired no   *)
(* handler forwards another event to the sink.                             *)
C10_TripwireStopsForwarding ==
  [][tripwire => \A c \in Conns : conn'[c].sent = conn[c].sent]_vars

(* C10, the case the code gets right: the tripwire ended a handler that    *)
(* was polling its socket.                                                 *)
C10_Witness ==
  /\ tripwire
  /\ \E c \in Conns : conn[c].exit = "tripwire"

(* A handler task that has been spawned and has not exited. *)
Active(r) == r.pc \in {"handshake", "stream"}

(* C11 (as claimed): the future returned by run completes only when every  *)
(* handler has exited or the grace period has elapsed.  Whenever it has    *)
(* completed, no handler is active or the tripwire has fired.              *)
C11_RunCompletesWhenDrained ==
  run \in {"stopped", "failed"} =>
    \/ \A c \in Conns : ~Active(conn[c])
    \/ tripwire

(* C11, the case that agrees with the claim: the future has completed and  *)
(* every accepted connection had been served to its end.                   *)
C11_Witness ==
  /\ run = "stopped"
  /\ ~tripwire
  /\ \A c \in Conns : conn[c].pc = "done"


(* C12 (as claimed): the shutdown signal makes every active handler        *)
(* half-close its socket once and closes no connection by itself: no       *)
(* handler exits because of the signal, and none half-closes twice.        *)
C12_SignalNeverCloses ==
  \A c \in Conns :
    /\ conn[c].exit # "shutdown"
    /\ conn[c].write_shutdowns <= 1

(* C12 (amended): a handler past its handshake half-closes the write side  *)
(* of its socket at most once, only after the shutdown signal and before   *)
(* it next reads or decodes, and keeps the token; with the signal fired    *)
(* and the tripwire not, it can still half-close, read what the peer sent  *)
(* and decode it; only a handler still in its handshake exits because of   *)
(* the signal, and without a half-close.                                   *)
C12_HalfCloseOnceKeepsReading ==
  \A c \in Conns :
    /\ conn[c].write_shutdowns <= 1
    /\ conn[c].write_shutdowns = 1 => shutdown
    /\ conn[c].pc = "stream" => (conn[c].shutdown_token <=> conn[c].write_shutdowns = 1)
    /\ conn[c].exit = "shutdown" => (conn[c].write_shutdowns = 0 /\ conn[c].yielded = <<>>)
    /\ (Polling(c) /\ shutdown /\ ~tripwire /\ ~conn[c].shutdown_token)
         => /\ ENABLED StartGracefulShutdown(c)
            /\ ~ReaderPolled(c)
            /\ ~ENABLED (\E n \in 1..Len(conn[c].wire) : Read(c, n))
    /\ (Polling(c) /\ shutdown /\ ~tripwire /\ conn[c].shutdown_token)
         => /\ ReaderPolled(c)
            /\ (~conn[c].is_readable /\ conn[c].wire # <<>>)
                 => ENABLED (\E n \in 1..Len(conn[c].wire) : Read(c, n))

(* C12: a handler has half-closed on the signal and the bytes its peer     *)
(* sent are still to be read.                                              *)
C12_Witness ==
  /\ shutdown
  /\ ~tripwire
  /\ \E c \in Conns :
       /\ conn[c].pc = "stream"
       /\ conn[c].write_shutdowns = 1
       /\ conn[c].wire # <<>>


(* C13 (as claimed): once the sink has failed a connection forwards no     *)
(* further event, and no handler ends because of the send error: it ends   *)
(* only as it would have ended with the sink open.                         *)
C13_SinkErrorKeepsConnection ==
  [][\A c \in Conns :
       /\ out = "closed" => conn'[c].sent = conn[c].sent
       /\ conn'[c].exit # "sink"]_vars

(* C13: the sink has failed under a handler that held an event for it, and *)
(* the handler has ended on the send error, the tripwire not fired.        *)
C13_Witness ==
  /\ out = "closed"
  /\ ~tripwire
  /\ \E c \in Conns : conn[c].exit = "sink"


(* The handler tasks spawned and not yet exited. *)
ActiveHandlers == {c \in Conns : Active(conn[c])}

(* C14: the open-connection gauge is the number of accepted connections    *)
(* whose handler has not exited: one more with each accepted socket, one   *)
(* less with each handler's exit whatever its path, 0 when every handler   *)
(* has exited.                                                             *)
C14_GaugeCountsActiveHandlers ==
  [][/\ gauge = Cardinality(ActiveHandlers)
     /\ gauge' = Cardinality(ActiveHandlers')
     /\ \A c \in Conns :
          /\ (~Active(conn[c]) /\ Active(conn'[c])) => gauge' = gauge + 1
          /\ (Active(conn[c]) /\ ~Active(conn'[c])) => gauge' = gauge - 1
     /\ ActiveHandlers' = {} => gauge' = 0]_vars

(* C14: every connection was accepted, and their handlers have exited by   *)
(* different paths, one of them in a panic.                                *)
C14_Witness ==
  /\ gauge = 0
  /\ \A c \in Conns : conn[c].pc = "done"
  /\ \E c, d \in Conns : conn[c].exit = "panic" /\ conn[d].exit \notin {"", "panic"}


(* C15: an accept error leaves the accept loop running, the gauge and      *)
(* every other connection as they were, and spawns no handler then or      *)
(* later for the failed acceptance; with an acceptance failed and the      *)
(* shutdown signal not fired, every peer still connecting can be accepted, *)
(* and the handlers already spawned go on.                                 *)
C15_AcceptErrorNotFatal ==
  [][\A c \in Conns :
       /\ (conn[c].pc = "pending" /\ conn'[c].pc = "accept_failed")
            => /\ run' = "listening"
               /\ gauge' = gauge
               /\ \A d \in Conns \ {c} : conn'[d] = conn[d]
       /\ conn[c].pc = "accept_failed"
            => /\ conn'[c] = conn[c]
               /\ run # "failed"
               /\ \A d \in Conns :
                    (run = "listening" /\ ~shutdown /\ conn[d].pc = "pending")
                      => ENABLED Accept(d)]_vars

(* C15: one acceptance has failed, and a connection accepted by the same   *)
(* loop has been served to its peer's end of stream.                       *)
C15_Witness ==
  \E c, d \in Conns :
    /\ conn[c].pc = "accept_failed"
    /\ conn[d].exit = "eof"
    /\ conn[d].sent # <<>>


(* The answers under which binding fails: the address cannot be bound, the *)
(* inherited descriptor is absent or already taken, cannot be taken, or    *)
(* cannot be made a listener.                                              *)
BindFailures ==
  {l \in Listens :
     \/ l.addr = "SocketAddr" /\ l.bind = "Err"
     \/ l.addr = "SystemdFd" /\ (l.take \in {"None", "Err"} \/ l.from_std = "Err")}

(* C16: every bind failure leaves the source without a listener, and a     *)
(* source without a listener has ended in error having accepted no         *)
(* connection, spawned no handler and emitted no event.                    *)
C16_BindFailureFatal ==
  /\ \A l \in BindFailures : make_listener(l) = "None" /\ RunListener(l) = "failed"
  /\ run = "failed"
       => /\ gauge = 0
          /\ \A c \in Conns :
               /\ conn[c].pc = "pending"
               /\ conn[c].yielded = <<>>
               /\ conn[c].sent = <<>>

(* C16: binding has failed with peers waiting to connect. *)
C16_Witness ==
  /\ run = "failed"
  /\ \E c \in Conns : conn[c].pc = "pending" /\ conn[c].msgs # <<>>


(* C17 (as claimed): timestamp decoding never panics.  Whatever EventTime  *)
(* extension or Unix seconds a peer sends, the decoder gives a timestamp   *)
(* or a decode error, and no connection task ends in a panic.              *)
C17_TimestampNeverPanics ==
  \A c \in Conns :
    /\ conn[c].exit # "panic"
    /\ conn[c].pc = "stream"
         => \A i \in 1..Len(conn[c].msgs) :
              \A j \in 1..Len(Catalogue[conn[c].msgs[i]].entries) :
                FluentTimestamp(TsV(Catalogue[conn[c].msgs[i]].entries[j])).st
                  \in {"ok", "err"}

(* C17: a peer has sent an EventTime of 8 bytes whose nanoseconds are      *)
(* beyond what Utc.timestamp takes, and the handler's task has panicked.   *)
C17_Witness ==
  \E c \in Conns :
    /\ conn[c].exit = "panic"
    /\ \E i \in 1..Len(conn[c].msgs) : \E j \in 1..Len(Catalogue[conn[c].msgs[i]].entries) :
         LET e == Catalogue[conn[c].msgs[i]].entries[j]
         IN e.ext # <<>> /\ e.ext[1] = 0 /\ e.ext[2] = 8 /\ e.ext[3] >= NanosLimit


(* The seconds both encodings are compared on: those a peer sends as a     *)
(* positive fixint, and some as wide as the model's integers go.           *)
SecondsCompared == (0..MaxSeconds) \cup {255, 256, 65536, 16777216, 2147483647}

(* The message with every timestamp as Unix seconds. *)
UnixForm(m) ==
  [m EXCEPT !.entries = [i \in 1..Len(m.entries) |-> Entry(m.entries[i].ts, m.entries[i].rec)]]

(* The catalogue's messages whose timestamps are EventTime extensions of   *)
(* whole seconds, and what the decoder makes of their Unix forms.          *)
WholeSecondExt ==
  {m \in Zoo : /\ Catalogue[m].entries # <<>>
               /\ \A i \in 1..Len(Catalogue[m].entries) :
                    Catalogue[m].entries[i].ext = <<0, 8, 0>>}
UnixFormYields == [m \in WholeSecondExt |-> AtOnce(Wire(UnixForm(Catalogue[m])))]

UnixAndExtAgree ==
  \A n \in SecondsCompared :
    LET unix == FluentTimestamp(VInt(n))
        ext == FluentTimestamp(VExt(0, Bytes4(n) \o Bytes4(0)))
    IN unix.st = "ok" /\ ext.st = "ok" /\ unix.ts = ext.ts

(* C18: Unix(n) and Ext(n, 0) decode to the same timestamp, and a message  *)
(* sent with Ext(n, 0) gives the frames and the events, timestamps         *)
(* included, that the same message gives when sent with Unix(n).           *)
C18_UnixAndExtSameTimestamp ==
  /\ UnixAndExtAgree
  /\ \A c \in Conns :
       (conn[c].pc = "stream" /\ Len(conn[c].msgs) = 1 /\ conn[c].msgs[1] \in WholeSecondExt)
         => LET unix == UnixFormYields[conn[c].msgs[1]] IN
            /\ Len(conn[c].yielded) <= Len(unix)
            /\ \A i \in 1..Len(conn[c].yielded) : conn[c].yielded[i] = unix[i]
            /\ \A i \in 1..Len(conn[c].sent) :
                 /\ conn[c].sent[i] = build_event(unix[i].frame, Host(c))
                 /\ conn[c].sent[i][timestamp_key]
                      = [k |-> "Timestamp",
                         ts |-> FluentTimestamp(VInt(Catalogue[conn[c].msgs[1]].entries[i].ts)).ts]
            /\ Quiet(conn[c]) => Len(conn[c].sent) = Len(unix)

(* C18: the event of a message sent with an EventTime extension of whole   *)
(* seconds has reached the pipeline.                                       *)
C18_Witness ==
  \E c \in Conns :
    /\ conn[c].pc = "stream"
    /\ Len(conn[c].msgs) = 1
    /\ conn[c].msgs[1] \in WholeSecondExt
    /\ conn[c].sent # <<>>
    /\ Quiet(conn[c])


(* The catalogue's messages with a timestamp extension the EventTime       *)
(* decoder rejects: of a type other than 0, or not of 8 bytes.             *)
RejectedEventTime ==
  {m \in Zoo : \E i \in 1..Len(Catalogue[m].entries) :
                 LET e == Catalogue[m].entries[i]
                 IN e.ext # <<>> /\ (e.ext[1] # 0 \/ e.ext[2] # 8)}

(* C19 (as claimed): an extension of a type other than 0 or of a length    *)
(* other than 8 is not taken for a timestamp, and the message that holds   *)
(* it gives a decode error that is not fatal and no frame.                 *)
C19_BadEventTimeNoFrame ==
  /\ \A m \in RejectedEventTime : \E i \in 1..Len(Catalogue[m].entries) :
       FluentTimestamp(TsV(Catalogue[m].entries[i])).st = "err"
  /\ \A c \in Conns :
       (conn[c].pc = "stream" /\ Len(conn[c].msgs) = 1
          /\ conn[c].msgs[1] \in RejectedEventTime)
         => /\ FramesIn(conn[c].yielded) = <<>>
            /\ \A i \in 1..Len(conn[c].yielded) :
                 ~is_error_fatal(conn[c].yielded[i].err)
            /\ Quiet(conn[c]) => Len(conn[c].yielded) = 1

(* C19: a handler has yielded a frame of a message one of whose entries    *)
(* has a timestamp extension of the wrong type.                            *)
C19_Witness ==
  \E c \in Conns :
    /\ conn[c].pc = "stream"
    /\ Len(conn[c].msgs) = 1
    /\ conn[c].msgs[1] \in RejectedEventTime
    /\ FramesIn(conn[c].yielded) # <<>>


(* The catalogue's PackedForwardWithOptions messages sent as "text" or as  *)
(* true gzip; the same tag and payload sent as a PackedForward, as "text", *)
(* as one gzip member and as a member per entry; and what the decoder      *)
(* makes of the PackedForward.                                             *)
TextOrGzip ==
  {m \in Zoo : /\ Catalogue[m].shape = "PackedForwardWithOptions"
               /\ \/ Catalogue[m].comp = TEXT
                  \/ Catalogue[m].comp = GZIP /\ Catalogue[m].gz}
PackedMessages ==
  {m \in Zoo : Catalogue[m].shape \in {"PackedForward", "PackedForwardWithOptions"}}
AsPackedForward(m) ==
  [m EXCEPT !.shape = "PackedForward", !.comp = <<>>, !.gz = FALSE, !.members = FALSE]
AsText(m) ==
  [m EXCEPT !.shape = "PackedForwardWithOptions", !.comp = TEXT, !.gz = FALSE,
            !.members = FALSE]
AsGzip(m, members) ==
  [m EXCEPT !.shape = "PackedForwardWithOptions", !.comp = GZIP, !.gz = TRUE,
            !.members = members]
PackedForwardYields == [m \in PackedMessages |-> AtOnce(Wire(AsPackedForward(Catalogue[m])))]

GzipAndTextAgree ==
  \A m \in PackedMessages :
    /\ AtOnce(Wire(AsText(Catalogue[m]))) = PackedForwardYields[m]
    /\ \A members \in BOOLEAN :
         AtOnce(Wire(AsGzip(Catalogue[m], members))) = PackedForwardYields[m]

(* C20: gzip transparency.  Every payload of the catalogue gives the same  *)
(* frames and errors whether it is sent as a PackedForward, as "text", as  *)
(* one gzip member or as several; and a handler sent a "text" or gzip      *)
(* message yields, in order, what it would yield for the PackedForward     *)
(* of the same tag and payload, all of it once it has decoded the message. *)
C20_GzipTransparency ==
  /\ GzipAndTextAgree
  /\ \A c \in Conns :
       (conn[c].pc = "stream" /\ Len(conn[c].msgs) = 1 /\ conn[c].msgs[1] \in TextOrGzip)
         => LET plain == PackedForwardYields[conn[c].msgs[1]] IN
            /\ Len(conn[c].yielded) <= Len(plain)
            /\ \A i \in 1..Len(conn[c].yielded) : conn[c].yielded[i] = plain[i]
            /\ Quiet(conn[c]) => conn[c].yielded = plain

(* C20: a handler has decoded a payload sent as several gzip members and   *)
(* yielded a frame for an entry of each.                                   *)
C20_Witness ==
  \E c \in Conns :
    /\ Quiet(conn[c])
    /\ Len(conn[c].msgs) = 1
    /\ conn[c].msgs[1] \in TextOrGzip
    /\ Catalogue[conn[c].msgs[1]].members
    /\ Len(FramesIn(conn[c].yielded)) = Len(Catalogue[conn[c].msgs[1]].entries)
    /\ Len(conn[c].yielded) >= 2


(* The event built for the i-th frame a handler yielded: the i-th it sent. *)
FrameOfEvent(r, i) == FramesIn(r.yielded)[i]
ReservedKeys == {host_key, timestamp_key, tag_key}

(* Every frame yielded has given one event, sent or held for the pipeline, *)
(* whose fields are the three named ones and the record's keys, each       *)
(* record key with the value mapped from the record's.                     *)
OneEventWithRecord(c) ==
  /\ conn[c].pc = "stream"
       => Len(FramesIn(conn[c].yielded)) = Len(conn[c].sent) + Len(conn[c].buffered_item)
  /\ \A i \in 1..Len(conn[c].sent) :
       LET frame == FrameOfEvent(conn[c], i)
           event == conn[c].sent[i]
       IN /\ DOMAIN event = ReservedKeys \cup DOMAIN frame.record
          /\ \A key \in DOMAIN frame.record : event[key] = Value(frame.record[key])

(* C21 (as claimed): for every frame, a record with keys named host, tag   *)
(* or timestamp included, the one event built has the peer's host in its   *)
(* host field, the frame's timestamp and tag in its timestamp and tag      *)
(* fields, and every record key with its mapped value.                     *)
C21_EventFieldsAlways ==
  \A c \in Conns :
    /\ OneEventWithRecord(c)
    /\ \A i \in 1..Len(conn[c].sent) :
         LET frame == FrameOfEvent(conn[c], i)
             event == conn[c].sent[i]
         IN /\ event[host_key] = [k |-> "Bytes", b |-> Host(c)]
            /\ event[timestamp_key] = [k |-> "Timestamp", ts |-> frame.timestamp]
            /\ event[tag_key] = [k |-> "Bytes", b |-> frame.tag]

(* C21 (amended): every record key is a field of the one event with its    *)
(* mapped value; the host, timestamp and tag fields hold the peer's host   *)
(* and the frame's timestamp and tag unless the record has a key of that   *)
(* name, whose value then takes the field.                                 *)
C21_EventFieldsRecordWins ==
  \A c \in Conns :
    /\ OneEventWithRecord(c)
    /\ \A i \in 1..Len(conn[c].sent) :
         LET frame == FrameOfEvent(conn[c], i)
             event == conn[c].sent[i]
         IN /\ host_key \notin DOMAIN frame.record
                 => event[host_key] = [k |-> "Bytes", b |-> Host(c)]
            /\ timestamp_key \notin DOMAIN frame.record
                 => event[timestamp_key] = [k |-> "Timestamp", ts |-> frame.timestamp]
            /\ tag_key \notin DOMAIN frame.record
                 => event[tag_key] = [k |-> "Bytes", b |-> frame.tag]

(* C21: the event of a frame whose record has keys named host, tag and     *)
(* timestamp has been sent.                                                *)
C21_Witness ==
  \E c \in Conns : \E i \in 1..Len(conn[c].sent) :
    ReservedKeys \subseteq DOMAIN FrameOfEvent(conn[c], i).record


(* The text is "systemd#" and an index: in plain decimal digits, or in any *)
(* form str::parse takes for a number; the index it names.                 *)
IndexPart(text) == SubSeq(text, 9, Len(text))
IsPlainIndex(text) == StartsWith(text, SYSTEMD_HASH) /\ AllDigits(IndexPart(text))
IsSignedIndex(text) ==
  /\ StartsWith(text, SYSTEMD_HASH)
  /\ IndexPart(text) # <<>>
  /\ IndexPart(text)[1] = "+"
  /\ AllDigits(Tail(IndexPart(text)))
IndexNamed(text) ==
  IF IsPlainIndex(text) THEN DecValue(IndexPart(text)) ELSE DecValue(Tail(IndexPart(text)))

(* The texts "<ip>:<port>" among those given. *)
IpPortTexts ==
  { <<"1", "2", "7", ".", "1", ".", "2", ".", "3", ":", "1", "2", "3", "4">>, <<"0", ".", "0", ".", "0", ".", "0", ":", "0">> }

(* C22 (as claimed): "systemd" is SystemdFd(0), "systemd#N" is             *)
(* SystemdFd(N-1) for N >= 1 and an error for N = 0, "<ip>:<port>" is a    *)
(* SocketAddr, and any other text is an error.                             *)
C22_ListenAddrParsing ==
  address.addr # Unparsed /\ address.shown = NotShown =>
    CASE address.text = SYSTEMD -> address.addr = SystemdFd(0)
      [] IsPlainIndex(address.text) ->
           IF IndexNamed(address.text) = 0 THEN address.addr = AddrError
           ELSE address.addr = SystemdFd(IndexNamed(address.text) - 1)
      [] address.text \in IpPortTexts -> address.addr.kind = "SocketAddr"
      [] OTHER -> address.addr = AddrError

(* C22 (amended): as claimed, with the index of "systemd#N" in any form    *)
(* str::parse takes: decimal digits, a "+" before them allowed.            *)
C22_ListenAddrParsingSigned ==
  address.addr # Unparsed /\ address.shown = NotShown =>
    CASE address.text = SYSTEMD -> address.addr = SystemdFd(0)
      [] IsPlainIndex(address.text) \/ IsSignedIndex(address.text) ->
           IF IndexNamed(address.text) = 0 THEN address.addr = AddrError
           ELSE address.addr = SystemdFd(IndexNamed(address.text) - 1)
      [] address.text \in IpPortTexts -> address.addr.kind = "SocketAddr"
      [] OTHER -> address.addr = AddrError

(* C22: the text "systemd#3" has been deserialized, to SystemdFd(2). *)
C22_Witness ==
  /\ address.text = <<"s", "y", "s", "t", "e", "m", "d", "#", "3">>
  /\ address.addr = SystemdFd(2)
  /\ address.shown = NotShown


(* C23 (as claimed): the display form of SystemdFd(N) deserializes to      *)
(* SystemdFd(N) again.                                                     *)
C23_DisplayParseRoundTrip ==
  (address.shown.kind = "SystemdFd" /\ address.addr # Unparsed)
    => address.addr = address.shown

(* C23: SystemdFd(2) was displayed, as "systemd socket #2", and the text   *)
(* has been deserialized again.                                            *)
C23_Witness ==
  /\ address.shown = SystemdFd(2)
  /\ address.text = <<"s", "y", "s", "t", "e", "m", "d", " ", "s", "o", "c", "k", "e", "t", " ", "#", "2">>
  /\ address.addr # Unparsed


(* A step of connection c: the step changes what the model holds of it. *)
StepOf(c) == conn'[c] # conn[c]
(* A step of one connection changes no other connection and leaves the     *)
(* accept loop as it was.                                                  *)
OthersUntouched ==
  \A c \in Conns :
    StepOf(c) => /\ \A d \in Conns \ {c} : conn'[d] = conn[d]
                 /\ run' = run
(* A connection not yet past its handshake has an empty codec: no frame    *)
(* pending, no byte buffered, nothing yielded.                             *)
CodecStartsEmpty ==
  \A c \in Conns :
    conn[c].pc \in {"pending", "handshake"}
      => /\ conn[c].unread_frames = <<>>
         /\ conn[c].buffer = <<>>
         /\ conn[c].yielded = <<>>
(* Every event sent for connection c was built from a frame of c with the  *)
(* host of c.                                                              *)
BuiltWithOwnHost ==
  \A c \in Conns : \A i \in 1..Len(conn[c].sent) :
    conn[c].sent[i] = build_event(FrameOfEvent(conn[c], i), Host(c))

(* C24 (as claimed): the end or the stall of one connection changes no     *)
(* other connection and does not stop the accept loop; each codec starts   *)
(* with an empty pending queue; every event has the host of its connection *)
(* in its host field.                                                      *)
C24_ConnectionsIndependent ==
  /\ [][OthersUntouched]_vars
  /\ [](/\ CodecStartsEmpty
        /\ \A c \in Conns : \A i \in 1..Len(conn[c].sent) :
             conn[c].sent[i][host_key] = [k |-> "Bytes", b |-> Host(c)])

(* C24 (amended): as claimed, but the event is the one build_event makes   *)
(* with the host of its connection: its host field holds that host unless  *)
(* the frame's record has a key of that name.                              *)
C24_ConnectionsIndependentOwnHost ==
  /\ [][OthersUntouched]_vars
  /\ [](/\ CodecStartsEmpty
        /\ BuiltWithOwnHost
        /\ \A c \in Conns : \A i \in 1..Len(conn[c].sent) :
             host_key \notin DOMAIN FrameOfEvent(conn[c], i).record
               => conn[c].sent[i][host_key] = [k |-> "Bytes", b |-> Host(c)])

(* C24: one handler has ended on a fatal error while another, untouched,   *)
(* is in its forward loop and has sent an event of its own.                *)
C24_Witness ==
  \E c, d \in Conns :
    /\ c # d
    /\ conn[c].pc = "done" /\ conn[c].exit = "fatal"
    /\ conn[d].pc = "stream" /\ conn[d].sent # <<>>
    /\ run = "listening"


(* The step is a decode call of connection c that returned an error. *)
DecodeReturnedError(c) ==
  /\ conn[c].pc = "stream"
  /\ Len(conn'[c].yielded) = Len(conn[c].yielded) + 1
  /\ IsErr(conn'[c].yielded[Len(conn'[c].yielded)])
  /\ conn'[c].yielded[Len(conn'[c].yielded)].from = "decode"

(* C25 (as claimed): a decode call that returns an error leaves the        *)
(* pending queue as it was before the call.                                *)
C25_HandleMessageAtomic ==
  [][\A c \in Conns :
       DecodeReturnedError(c) /\ conn'[c].pc = "stream"
         => conn'[c].unread_frames = conn[c].unread_frames]_vars

(* C25: a decode call has returned an error, for an unknown compression,   *)
(* and the pending queue is empty as before the call.                      *)
C25_Witness ==
  \E c \in Conns :
    /\ conn[c].pc = "stream"
    /\ conn[c].yielded # <<>>
    /\ conn[c].yielded[Len(conn[c].yielded)] = [err |-> "UnknownCompression", from |-> "decode"]
    /\ conn[c].unread_frames = <<>>


(* The non-empty strict prefixes of the catalogue's messages that are one  *)
(* MessagePack value on the wire.                                          *)
StrictPrefixes ==
  UNION {{SubSeq(WireOf[m], 1, k) : k \in 1..(Len(WireOf[m]) - 1)} : m \in Delimited}
(* The step is a decode call of connection c, before the socket's EOF,     *)
(* with nothing pending: the call reads a message from the buffer.         *)
DecodeParses(c) ==
  /\ conn[c].pc = "stream"
  /\ conn[c].is_readable
  /\ ~conn[c].eof
  /\ conn[c].unread_frames = <<>>
  /\ \/ conn'[c].is_readable # conn[c].is_readable
     \/ conn'[c].yielded # conn[c].yielded
     \/ conn'[c].buffer # conn[c].buffer
     \/ conn'[c].unread_frames # conn[c].unread_frames
     \/ conn'[c].pc # conn[c].pc
(* The well-formed messages of shape Message. *)
ValidMessages == {m \in Zoo : Catalogue[m].shape = "Message" /\ Catalogue[m].good}

(* C26: a decode call on a buffer that holds a strict prefix of a message  *)
(* returns None (FramedRead goes back to reading) and leaves the buffer    *)
(* and the pending queue unchanged; for one valid Message, however the     *)
(* socket splits it, byte by byte included, nothing is yielded before the  *)
(* last byte has been read and exactly one frame, the message's, once the  *)
(* whole of it has been decoded.                                           *)
C26_PrefixGivesNone ==
  [][\A c \in Conns :
       /\ (DecodeParses(c) /\ conn[c].buffer \in StrictPrefixes)
            => conn'[c] = [conn[c] EXCEPT !.is_readable = FALSE]
       /\ (Len(conn'[c].msgs) = 1 /\ conn'[c].msgs[1] \in ValidMessages)
            => /\ conn'[c].wire # <<>> => conn'[c].yielded = <<>>
               /\ (conn'[c].pc = "stream" /\ conn'[c].wire = <<>>
                   /\ ~conn'[c].is_readable)
                    => conn'[c].yielded =
                         <<[frame |-> ExpectedFramesOf[conn'[c].msgs[1]][1]]>>]_vars

(* C26: all of a valid Message but its last byte is in the buffer, the     *)
(* decode call on it has returned None and nothing has been yielded.       *)
C26_Witness ==
  \E c \in Conns :
    /\ conn[c].msgs = <<2>>
    /\ Len(conn[c].wire) = 1
    /\ conn[c].buffer \in StrictPrefixes
    /\ conn[c].pc = "stream"
    /\ ~conn[c].is_readable
    /\ conn[c].yielded = <<>>


(* The error the step's decode call returned is not fatal. *)
ReturnedNonFatal(c) ==
  /\ DecodeReturnedError(c)
  /\ ~is_error_fatal(conn'[c].yielded[Len(conn'[c].yielded)].err)

EndsInsideEntry ==
  {m \in Zoo : /\ Catalogue[m].shape = "PackedForward"
               /\ \E n \in 1..5 : Catalogue[m].junk = TruncatedEntry(n)}
EndOfPayloadIn(m) == ReadValue(Catalogue[m].junk, 1).st

(* C28 (as claimed): a payload that ends inside an entry, the end met in a *)
(* marker read or in a data read, raises no decode error, and the entries  *)
(* before it are kept: they are the frames the message yields.             *)
C28_EntryStreamEofRule ==
  \A c \in Conns :
    (Len(conn[c].msgs) = 1 /\ conn[c].msgs[1] \in EndsInsideEntry)
      => /\ \A i \in 1..Len(conn[c].yielded) :
              IsErr(conn[c].yielded[i]) => conn[c].yielded[i].from = "socket"
         /\ conn[c].exit = "eof"
              => FramesIn(conn[c].yielded) = ExpectedFramesOf[conn[c].msgs[1]]

(* C28, the case the code gets right: the payload's end is met in a data   *)
(* read; the stream is read to its end, the entry before the cut is the    *)
(* one frame and there is no error.                                        *)
C28_Witness ==
  \E c \in Conns :
    /\ Len(conn[c].msgs) = 1
    /\ conn[c].msgs[1] \in EndsInsideEntry
    /\ EndOfPayloadIn(conn[c].msgs[1]) = "eofD"
    /\ conn[c].exit = "eof"
    /\ conn[c].yielded = <<[frame |-> ExpectedFramesOf[conn[c].msgs[1]][1]]>>


(* The step is a decode call of connection c made with frames pending. *)
DecodeWithPending(c) ==
  /\ conn[c].pc = "stream"
  /\ conn[c].is_readable
  /\ conn[c].buffered_item = <<>>
  /\ conn[c].unread_frames # <<>>
  /\ [conn'[c] EXCEPT !.peer_closed = conn[c].peer_closed] # conn[c]

(* C29: a decode call made with frames pending returns the head of the     *)
(* queue, removes that frame alone and leaves the buffer as it was, so no  *)
(* message is parsed before the queue is empty; a decode call returns at   *)
(* most one frame.                                                         *)
C29_PendingQueueDiscipline ==
  [][\A c \in Conns :
       /\ DecodeWithPending(c)
            => /\ conn'[c].yielded =
                    Append(conn[c].yielded, [frame |-> Head(conn[c].unread_frames)])
               /\ conn'[c].unread_frames = Tail(conn[c].unread_frames)
               /\ conn'[c].buffer = conn[c].buffer
       /\ Len(conn'[c].yielded) <= Len(conn[c].yielded) + 1]_vars

(* C29: of the three frames of one Forward, two were pending after the    *)
(* first; a decode call has handed out the second and the third is the     *)
(* one left.                                                               *)
C29_Witness ==
  \E c \in Conns :
    /\ conn[c].pc = "stream"
    /\ conn[c].msgs = <<28>>
    /\ conn[c].yielded = <<[frame |-> ExpectedFramesOf[28][1]],
                           [frame |-> ExpectedFramesOf[28][2]]>>
    /\ conn[c].unread_frames = <<ExpectedFramesOf[28][3]>>

=============================================================================
